---- MODULE Spec2Model ----
(***************************************************************************)
(* A model of the embedded full-text index of clicktsdb (crate `fts`):     *)
(* writable segments, their finalization into the on-disk files            *)
(* terms.dict / postings.list / docs.store, the per-segment query          *)
(* evaluation and the index reader that merges the segments; and of the    *)
(* ingestion buffer of the ClickHouse storage (crate `storage`), which     *)
(* indexes the labels of each series and batches its samples.              *)
(*                                                                         *)
(* Strings are modelled as their UTF-8 bytes (sequences of 0..255), files  *)
(* as byte sequences, Option<T> as a sequence of length 0 or 1, and a      *)
(* HashMap as a function over its key set.  Wherever the code iterates a   *)
(* HashMap or HashSet the iteration order is a nondeterministic choice.    *)
(***************************************************************************)
EXTENDS Integers, Sequences, FiniteSets, TLC

VARIABLES
    disk,             \* the index directory: segment id -> the files of that segment
    segments,         \* Index.segments: the published list Vec<Arc<Segment>>
    current_segment,  \* the Option<WritableSegment> of the indexing worker
    ops,              \* the channel of IndexingOp to the indexing worker
    fin,              \* the channel of (WritableSegment, reply) to the finalizer
    worker,           \* where the thread of indexing_task is
    finalizer,        \* where the thread of the segment finalizer is
    finalizing,       \* the segment the finalizer has made and the reply it holds
    writer,           \* where each caller of an IndexWriter is
    reply,            \* the oneshot channel of each caller's commit(wait = true)
    index_state,      \* where the owner of the Index is: open, closing, closed
    clock,            \* the millisecond Ulid::new() read last
    log,              \* history: the documents inserted into current_segment, in order
    committed,        \* history: id and documents of each segment handed over for
                      \* finalization, in commit order
    submitted,        \* history: the documents each writer has sent, in order
    acked,            \* history: how many of them a returned commit(true) covers
    ncalls,           \* history: the calls made on the index and its writers so far
    hist,             \* history: the ops sent and handled since Index::open, what
                      \* the last close was called with, the writers whose commit
                      \* met a failed finalization
    snapshot,         \* the segment readers of the IndexReader a caller holds
    memory_budget,    \* ClickHouseStorage: bytes the buffer may hold before a commit
    sample_budget,    \* ClickHouseStorage: samples the buffer may hold before a commit
    memory_buffer,    \* ingestion task: HashMap<u64, TimeSeries>
    memory_usage,     \* ingestion task: the bytes counted since the last commit
    sample_count,     \* ingestion task: the samples counted since the last commit
    task,             \* where the ingestion task is
    series,           \* the Vec<TimeSeries> a commit tick has taken out of the buffer
    backend,          \* the rows of the ClickHouse table `samples`
    ingest,           \* history: the last handler the ingestion task ran, the messages
                      \* received so far, since the last swap of the buffer the
                      \* samples received and the DocIds sent to the index writer,
                      \* and whether the last insert into the backend failed
    call              \* the last call of the read API together with what it returned

storage_vars == <<memory_budget, sample_budget, memory_buffer, memory_usage, sample_count,
                  task, series, backend, ingest>>

index_vars == <<ops, fin, worker, finalizer, finalizing, writer, reply, index_state, clock,
                submitted, acked, ncalls, hist, snapshot>>

engine_vars == <<index_vars, storage_vars>>

vars == <<disk, segments, current_segment, log, committed, call, ops, fin, worker,
          finalizer, finalizing, writer, reply, index_state, clock, submitted, acked,
          ncalls, hist, snapshot, storage_vars>>

----------------------------------------------------------------------------
(* Bounds of the model                                                     *)

\* documents inserted into the one segment of SpecSegment
MaxSegDocs == 2
\* segments of the reader snapshot of SpecReader
MaxSegs == 2
\* documents per segment of the reader snapshot of SpecReader
MaxBatch == 1
\* calls made on the index of Spec and on its writers
MaxCalls == 4
\* milliseconds that pass in Spec
MaxClock == 1
\* the greatest random part of an id
MaxRnd == 1

----------------------------------------------------------------------------
(* Bytes, integers on disk, strings                                        *)

U64_NUM_BYTE == 8

None == <<>>

Some(x) == <<x>>

Range(s) == {s[i] : i \in 1..Len(s)}

\* all the orders in which a hash container may yield the elements of S
Perms(S) ==
    {s \in [1..Cardinality(S) -> S] : \A i, j \in 1..Cardinality(S) : s[i] = s[j] => i = j}

RECURSIVE ShiftRight8(_, _)
ShiftRight8(v, k) == IF k = 0 THEN v ELSE ShiftRight8(v \div 256, k - 1)

\* u64::to_le_bytes
to_le_bytes(v) == [i \in 1..U64_NUM_BYTE |-> ShiftRight8(v, i - 1) % 256]

RECURSIVE from_le_bytes(_)
\* u64::from_le_bytes
from_le_bytes(b) == IF b = <<>> THEN 0 ELSE Head(b) + 256 * from_le_bytes(Tail(b))

RECURSIVE BytesLess(_, _)
\* the order of &[u8] and of str: lexicographic on the bytes
BytesLess(a, b) ==
    IF b = <<>> THEN FALSE
    ELSE IF a = <<>> THEN TRUE
    ELSE IF Head(a) # Head(b) THEN Head(a) < Head(b)
    ELSE BytesLess(Tail(a), Tail(b))

BytesLessEq(a, b) == a = b \/ BytesLess(a, b)

IsPrefix(p, s) == Len(p) <= Len(s) /\ SubSeq(s, 1, Len(p)) = p

RECURSIVE Concat(_)
Concat(ss) == IF ss = <<>> THEN <<>> ELSE Head(ss) \o Concat(Tail(ss))

----------------------------------------------------------------------------
(* Documents                                                               *)

\* the terms used by the modelled callers, as UTF-8
T_empty == <<>>
T_a == <<97>>
T_ab == <<97, 98>>
T_b == <<98>>
\* U+FFF0, the default upper bound of terms_range
T_fff0 == <<239, 191, 176>>
\* U+1F600, a code point above U+FFF0
T_emoji == <<240, 159, 152, 128>>

\* Document::new
Document(id, content, terms) == [id |-> id, content |-> content, terms |-> terms]

----------------------------------------------------------------------------
(* Writable segment                                                        *)

\* Ulid::new(): the millisecond timestamp and the random part; the string
\* form is ordered as the pair is
Ulid(ts, rnd) == <<ts, rnd>>

\* the order of Ulid::to_string()
UlidLess(a, b) == a[1] < b[1] \/ (a[1] = b[1] /\ a[2] < b[2])

\* Segment::create, given the fresh id
Segment_create(id) ==
    [id |-> id, terms |-> <<>>, documents |-> <<>>, num_bytes |-> 0]

RECURSIVE insert_terms_shifted(_, _, _)
\* an insert that files the terms of a document under the id after its own
insert_terms_shifted(terms, doc_terms, id) ==
    IF doc_terms = <<>> THEN terms
    ELSE LET term == Head(doc_terms)
             pushed == IF term \in DOMAIN terms
                       THEN [terms EXCEPT ![term] = Append(@, id + 1)]
                       ELSE terms @@ (term :> <<id + 1>>)
         IN insert_terms_shifted(pushed, Tail(doc_terms), id)

RECURSIVE insert_terms(_, _, _)
\* the inner loop of WritableSegment::insert: push the id on the list of each term
insert_terms(terms, doc_terms, id) ==
    IF doc_terms = <<>> THEN terms
    ELSE LET term == Head(doc_terms)
             pushed == IF term \in DOMAIN terms
                       THEN [terms EXCEPT ![term] = Append(@, id)]
                       ELSE terms @@ (term :> <<id>>)
         IN insert_terms(pushed, Tail(doc_terms), id)

\* a map that keeps the first value of a key, where HashMap::insert keeps the last
documents_insert_keep_first(documents, id, content) ==
    IF id \in DOMAIN documents
    THEN documents
    ELSE documents @@ (id :> content)

\* HashMap::insert on the documents of a writable segment
documents_insert(documents, id, content) ==
    IF id \in DOMAIN documents
    THEN [documents EXCEPT ![id] = content]
    ELSE documents @@ (id :> content)

RECURSIVE WritableSegment_insert(_, _)
\* WritableSegment::insert
WritableSegment_insert(seg, documents) ==
    IF documents = <<>> THEN seg
    ELSE LET document == Head(documents)
         IN WritableSegment_insert(
                [seg EXCEPT
                    !.terms = insert_terms(@, document.terms, document.id),
                    !.documents = documents_insert(@, document.id, document.content),
                    !.num_bytes = @ + Len(document.content)],
                Tail(documents))

\* WritableSegment::num_docs
num_docs(seg) == Cardinality(DOMAIN seg.documents)

----------------------------------------------------------------------------
(* Postings: terms.dict and postings.list                                  *)

\* bincode::serialize of a Vec<u64>: the length, then the items, each a u64
bincode_serialize(list) ==
    to_le_bytes(Len(list)) \o Concat([i \in 1..Len(list) |-> to_le_bytes(list[i])])

\* bincode::deserialize::<Vec<u64>>
bincode_deserialize(bytes) ==
    LET n == from_le_bytes(SubSeq(bytes, 1, U64_NUM_BYTE))
    IN [i \in 1..n |->
           from_le_bytes(SubSeq(bytes, i * U64_NUM_BYTE + 1, (i + 1) * U64_NUM_BYTE))]

\* Vec::sort on a posting list: ascending, equal items kept
sort_list(list) == SortSeq(list, LAMBDA a, b : a < b)

RECURSIVE sort_terms(_)
\* sort_unstable_by_key on the (term, list) pairs: ascending in the term bytes
sort_terms(terms) ==
    IF terms = {} THEN <<>>
    ELSE LET least == CHOOSE t \in terms : \A u \in terms : BytesLessEq(t[1], u[1])
         IN <<least>> \o sort_terms(terms \ {least})

RECURSIVE write_postings(_, _, _, _)
\* the loop of Postings::new over the sorted terms: the dictionary maps the
\* term to the offset of its record, the record is appended to the file
write_postings(terms, offset, term_dictionary, posting_list) ==
    IF terms = <<>>
    THEN [term_dictionary |-> term_dictionary, posting_list |-> posting_list]
    ELSE LET term == Head(terms)[1]
             posting_list_bytes == bincode_serialize(Head(terms)[2])
         IN write_postings(Tail(terms),
                offset + U64_NUM_BYTE + Len(posting_list_bytes),
                Append(term_dictionary, <<term, offset>>),
                posting_list \o to_le_bytes(Len(posting_list_bytes)) \o posting_list_bytes)

\* Postings::new: the two files it writes, which it then maps
Postings_new(term_dictionary) ==
    write_postings(
        sort_terms({<<term, sort_list(term_dictionary[term])>> : term \in DOMAIN term_dictionary}),
        0, <<>>, <<>>)

\* Postings::postings
Postings_postings(postings, offset) ==
    LET data_size ==
            from_le_bytes(SubSeq(postings.posting_list, offset + 1, offset + U64_NUM_BYTE))
    IN bincode_deserialize(SubSeq(postings.posting_list,
           offset + U64_NUM_BYTE + 1, offset + U64_NUM_BYTE + data_size))

\* Postings::range with the upper bound taken as inclusive
Postings_range_le(postings, from, to) ==
    SelectSeq(postings.term_dictionary,
              LAMBDA e : BytesLessEq(from, e[1]) /\ BytesLessEq(e[1], to))

\* Postings::range: the keys k of the dictionary with from <= k < to, in order
Postings_range(postings, from, to) ==
    SelectSeq(postings.term_dictionary,
              LAMBDA e : BytesLessEq(from, e[1]) /\ BytesLess(e[1], to))

----------------------------------------------------------------------------
(* Queries and matchers                                                    *)

Q_All == [kind |-> "All", term |-> <<>>]
Q_Equal(term) == [kind |-> "Equal", term |-> term]
Q_NotEqual(term) == [kind |-> "NotEqual", term |-> term]
Q_StartsWith(term) == [kind |-> "StartsWith", term |-> term]
Q_NotStartsWith(term) == [kind |-> "NotStartsWith", term |-> term]
Q_Fuzzy(term, distance) == [kind |-> "Fuzzy", term |-> term, distance |-> distance]
Q_NotFuzzy(term, distance) == [kind |-> "NotFuzzy", term |-> term, distance |-> distance]
Q_Regex(pattern) == [kind |-> "Regex", term |-> pattern]
Q_NotRegex(pattern) == [kind |-> "NotRegex", term |-> pattern]
Q_Or(left, right) == [kind |-> "Or", left |-> left, right |-> right]
Q_And(left, right) == [kind |-> "And", left |-> left, right |-> right]

\* Matcher::all, Matcher::equal, Matcher::starts_with
Matcher(term_matcher, term, complement) ==
    [term_matcher |-> term_matcher, term |-> term, complement |-> complement]

\* Matcher::fuzzy
Matcher_fuzzy(term, distance, complement) ==
    [term_matcher |-> "Fuzzy", term |-> term, distance |-> distance,
     complement |-> complement]

\* Query::matcher, for the leaf queries
Query_matcher(query) ==
    CASE query.kind = "All" -> Matcher("All", <<>>, FALSE)
      [] query.kind = "Equal" -> Matcher("Equal", query.term, FALSE)
      [] query.kind = "NotEqual" -> Matcher("Equal", query.term, TRUE)
      [] query.kind = "StartsWith" -> Matcher("StartsWith", query.term, FALSE)
      [] query.kind = "NotStartsWith" -> Matcher("StartsWith", query.term, TRUE)
      [] query.kind = "Fuzzy" -> Matcher_fuzzy(query.term, query.distance, FALSE)
      [] query.kind = "NotFuzzy" -> Matcher_fuzzy(query.term, query.distance, TRUE)
      [] query.kind = "Regex" -> Matcher("Regex", query.term, FALSE)
      [] query.kind = "NotRegex" -> Matcher("Regex", query.term, TRUE)

\* the number of bytes of the UTF-8 sequence a byte leads
utf8_width(lead) ==
    IF lead < 128 THEN 1 ELSE IF lead < 224 THEN 2 ELSE IF lead < 240 THEN 3 ELSE 4

RECURSIVE chars(_)
\* str::chars: the characters of a string, each as its UTF-8 bytes
chars(bytes) ==
    IF bytes = <<>> THEN <<>>
    ELSE LET n == utf8_width(bytes[1])
         IN <<SubSeq(bytes, 1, n)>> \o chars(SubSeq(bytes, n + 1, Len(bytes)))

Min3(a, b, c) == IF a <= b /\ a <= c THEN a ELSE IF b <= c THEN b ELSE c

RECURSIVE levenshtein(_, _)
\* the edit distance in characters, which the Levenshtein automaton bounds
levenshtein(a, b) ==
    IF a = <<>> THEN Len(b)
    ELSE IF b = <<>> THEN Len(a)
    ELSE Min3(levenshtein(Tail(a), b) + 1,
              levenshtein(a, Tail(b)) + 1,
              levenshtein(Tail(a), Tail(b)) + (IF Head(a) = Head(b) THEN 0 ELSE 1))

\* the characters of the regex syntax the patterns of the model use
RE_DOT == <<46>>
RE_STAR == <<42>>
NEWLINE == <<10>>

\* whether an atom of a pattern, a literal character or the dot, matches a character
regex_atom(atom, char) == IF atom = RE_DOT THEN char # NEWLINE ELSE atom = char

RECURSIVE regex_is_match(_, _)
\* the anchored DFA of a pattern made of literals, dots and stars: whether it
\* is in a match state when the whole key is read
regex_is_match(pattern, key) ==
    IF pattern = <<>> THEN key = <<>>
    ELSE IF Len(pattern) >= 2 /\ pattern[2] = RE_STAR
    THEN \/ regex_is_match(Tail(Tail(pattern)), key)
         \/ /\ key # <<>>
            /\ regex_atom(pattern[1], key[1])
            /\ regex_is_match(pattern, Tail(key))
    ELSE /\ key # <<>>
         /\ regex_atom(pattern[1], key[1])
         /\ regex_is_match(Tail(pattern), Tail(key))

\* whether the automaton of a term matcher accepts a key
automaton_accepts(matcher, key) ==
    CASE matcher.term_matcher = "All" -> TRUE
      [] matcher.term_matcher = "Equal" -> key = matcher.term
      [] matcher.term_matcher = "StartsWith" -> IsPrefix(matcher.term, key)
      [] matcher.term_matcher = "Fuzzy" ->
             levenshtein(chars(matcher.term), chars(key)) <= matcher.distance
      [] matcher.term_matcher = "Regex" -> regex_is_match(chars(matcher.term), chars(key))


\* the greatest distance whose Levenshtein automaton stays under the state
\* limit of Levenshtein::new
MaxFuzzyDistance == 2

\* whether the regex parser accepts the pattern: a star needs an expression
\* before it
regex_valid(pattern) == pattern = <<>> \/ pattern[1] # RE_STAR

\* the error with which Postings::search returns before it searches, when the
\* automaton of the matcher cannot be built
automaton_error(matcher) ==
    IF matcher.term_matcher = "Fuzzy" /\ matcher.distance > MaxFuzzyDistance
    THEN "Levenshtein"
    ELSE IF matcher.term_matcher = "Regex" /\ ~regex_valid(chars(matcher.term))
    THEN "Regex"
    ELSE ""

\* Postings::search with search_automaton: the keys the automaton, or its
\* complement, accepts, in the order of the dictionary
Postings_search(postings, matcher) ==
    SelectSeq(postings.term_dictionary,
              LAMBDA e : automaton_accepts(matcher, e[1]) # matcher.complement)

\* fetch_doc_ids: the ids of the posting lists are collected in a HashSet and
\* returned in the order the set yields them
fetch_doc_ids(postings, posting_info) ==
    Perms(UNION {Range(Postings_postings(postings, posting_info[i][2])) :
                    i \in 1..Len(posting_info)})

RECURSIVE or_loop_no_drain(_, _)
\* or_loop without the loop that drains the right cursor
or_loop_no_drain(left_doc_ids, right_doc_ids) ==
    IF left_doc_ids = <<>> \/ right_doc_ids = <<>>
    THEN left_doc_ids
    ELSE IF Head(left_doc_ids) < Head(right_doc_ids)
         THEN <<Head(left_doc_ids)>> \o or_loop_no_drain(Tail(left_doc_ids), right_doc_ids)
         ELSE <<Head(right_doc_ids)>> \o or_loop_no_drain(left_doc_ids, Tail(right_doc_ids))

RECURSIVE or_loop(_, _)
\* the union loop of evaluate_query on two peekable cursors
or_loop(left_doc_ids, right_doc_ids) ==
    IF left_doc_ids = <<>> \/ right_doc_ids = <<>>
    THEN left_doc_ids \o right_doc_ids
    ELSE IF Head(left_doc_ids) < Head(right_doc_ids)
         THEN <<Head(left_doc_ids)>> \o or_loop(Tail(left_doc_ids), right_doc_ids)
         ELSE <<Head(right_doc_ids)>> \o or_loop(left_doc_ids, Tail(right_doc_ids))

\* an And arm that returns what its left operand matched
and_loop_left(left_doc_ids, right_doc_ids) == left_doc_ids

RECURSIVE and_loop(_, _)
\* the intersection loop of evaluate_query on two peekable cursors
and_loop(left_doc_ids, right_doc_ids) ==
    IF left_doc_ids = <<>> \/ right_doc_ids = <<>> THEN <<>>
    ELSE IF Head(left_doc_ids) < Head(right_doc_ids)
         THEN and_loop(Tail(left_doc_ids), right_doc_ids)
         ELSE IF Head(left_doc_ids) > Head(right_doc_ids)
              THEN and_loop(left_doc_ids, Tail(right_doc_ids))
              ELSE <<Head(left_doc_ids)>>
                       \o and_loop(Tail(left_doc_ids), Tail(right_doc_ids))

\* the Or and And arms of evaluate_query, given the results of the operands
evaluate_bool(kind, left_doc_ids, right_doc_ids) ==
    IF kind = "Or" THEN or_loop(left_doc_ids, right_doc_ids)
    ELSE and_loop(left_doc_ids, right_doc_ids)


RECURSIVE evaluate_error_left_only(_)
\* an evaluation that does not look at the right operand once the left is good
evaluate_error_left_only(query) ==
    IF query.kind \in {"Or", "And"} THEN evaluate_error_left_only(query.left)
    ELSE automaton_error(Query_matcher(query))

RECURSIVE evaluate_error(_)
\* the error evaluate_query returns, "" when it returns a result: the left
\* operand is evaluated first and the ? returns its error, then the right one
evaluate_error(query) ==
    IF query.kind \in {"Or", "And"}
    THEN IF evaluate_error(query.left) # "" THEN evaluate_error(query.left)
         ELSE evaluate_error(query.right)
    ELSE automaton_error(Query_matcher(query))

RECURSIVE evaluate_query(_, _)
RECURSIVE evaluate_runs(_, _)
\* the evaluations of a query that evaluate_query can go through: what the
\* operands returned (empty for a leaf query) and what the query returns
evaluate_runs(postings, query) ==
    IF query.kind \in {"Or", "And"}
    THEN {[left |-> l, right |-> r, result |-> evaluate_bool(query.kind, l, r)] :
              l \in evaluate_query(postings, query.left),
              r \in evaluate_query(postings, query.right)}
    ELSE {[left |-> <<>>, right |-> <<>>, result |-> ids] :
              ids \in fetch_doc_ids(postings,
                          Postings_search(postings, Query_matcher(query)))}

\* evaluate_query: every sequence the evaluation can return
evaluate_query(postings, query) ==
    {run.result : run \in evaluate_runs(postings, query)}

----------------------------------------------------------------------------
(* Document store: docs.store                                              *)

\* the magic number that starts a zstd frame
ZSTD_MAGIC == <<40, 181, 47, 253>>

\* zstd::stream::encode_all: a frame holding the content
zstd_encode_all(content) == ZSTD_MAGIC \o content

\* zstd::stream::decode_all: the content of a frame
zstd_decode_all(frame) == SubSeq(frame, Len(ZSTD_MAGIC) + 1, Len(frame))

RECURSIVE write_store(_, _, _, _, _)
\* the loop of DocStore::new over the documents, in the order the HashMap
\* yields them
write_store(documents, order, offset, index, store) ==
    IF order = <<>> THEN [index |-> index, store |-> store]
    ELSE LET doc_id == Head(order)
             compressed_doc_content == zstd_encode_all(documents[doc_id])
         IN write_store(documents, Tail(order),
                offset + 2 * U64_NUM_BYTE + Len(compressed_doc_content),
                index @@ (doc_id :>
                    [offset |-> offset, length |-> Len(compressed_doc_content)]),
                store \o to_le_bytes(doc_id)
                      \o to_le_bytes(Len(compressed_doc_content))
                      \o compressed_doc_content)

\* DocStore::new
DocStore_new(documents, order) == write_store(documents, order, 0, <<>>, <<>>)

\* DocStore::fetch_doc
DocStore_fetch_doc(store, id) ==
    IF id \notin DOMAIN store.index THEN None
    ELSE LET info == store.index[id]
             offset == info.offset + 2 * U64_NUM_BYTE
         IN Some(zstd_decode_all(SubSeq(store.store, offset + 1, offset + info.length)))

----------------------------------------------------------------------------
(* Segments                                                                *)

\* WritableSegment::into_segment: the files written under <index>/<id>/ and
\* the Segment that maps them
into_segment(seg, order) ==
    LET postings == Postings_new(seg.terms)
        store == DocStore_new(seg.documents, order)
    IN [files |-> [term_dictionary |-> postings.term_dictionary,
                   posting_list |-> postings.posting_list,
                   docs_store |-> store.store],
        segment |-> [id |-> seg.id, index |-> store.index]]

\* Segment.postings: the two memory-mapped files of the segment
Segment_postings(segment) ==
    [term_dictionary |-> disk[segment.id].term_dictionary,
     posting_list |-> disk[segment.id].posting_list]

\* Segment.store: the index and the memory-mapped docs.store
Segment_store(segment) ==
    [index |-> segment.index, store |-> disk[segment.id].docs_store]

\* SegmentReader::search: every sequence it can return
SegmentReader_search(segment, query) == evaluate_query(Segment_postings(segment), query)

\* SegmentReader::list_terms_in_range
list_terms_in_range(segment, from, to) ==
    LET postings_info == Postings_range(Segment_postings(segment), from, to)
    IN [i \in 1..Len(postings_info) |-> postings_info[i][1]]

\* SegmentReader::fetch_doc
SegmentReader_fetch_doc(segment, id) == DocStore_fetch_doc(Segment_store(segment), id)

----------------------------------------------------------------------------
(* Index reader                                                            *)

RECURSIVE btree_insert_u64(_, _)
\* BTreeSet<DocId>::insert: the set is kept as its ascending sequence
btree_insert_u64(set, x) ==
    IF set = <<>> THEN <<x>>
    ELSE IF Head(set) = x THEN set
    ELSE IF x < Head(set) THEN <<x>> \o set
    ELSE <<Head(set)>> \o btree_insert_u64(Tail(set), x)

RECURSIVE btree_extend_u64(_, _)
\* collect::<BTreeSet<DocId>>() of a vector followed by BTreeSet::append
btree_extend_u64(set, items) ==
    IF items = <<>> THEN set
    ELSE btree_extend_u64(btree_insert_u64(set, Head(items)), Tail(items))

RECURSIVE btree_insert_str(_, _)
\* BTreeSet<String>::insert: the set is kept as its ascending sequence
btree_insert_str(set, x) ==
    IF set = <<>> THEN <<x>>
    ELSE IF Head(set) = x THEN set
    ELSE IF BytesLess(x, Head(set)) THEN <<x>> \o set
    ELSE <<Head(set)>> \o btree_insert_str(Tail(set), x)

RECURSIVE btree_extend_str(_, _)
\* collect::<BTreeSet<String>>() of a vector followed by BTreeSet::append
btree_extend_str(set, items) ==
    IF items = <<>> THEN set
    ELSE btree_extend_str(btree_insert_str(set, Head(items)), Tail(items))

\* Index::reader: the snapshot of the published list
Index_reader == segments

RECURSIVE query_loop(_, _)
\* the loop of IndexReader::query over the per-segment results
query_loop(terms_set, parts) ==
    IF parts = <<>> THEN terms_set
    ELSE query_loop(btree_extend_u64(terms_set, Head(parts)), Tail(parts))

\* IndexReader::query returning at the first segment with a match, newest first
IndexReader_query_first_hit(parts) ==
    IF parts = <<>> THEN <<>>
    ELSE IF parts[Len(parts)] # <<>> THEN btree_extend_u64(<<>>, parts[Len(parts)])
    ELSE query_loop(<<>>, SubSeq(parts, 1, Len(parts) - 1))

\* IndexReader::query, given what search returned for each segment
IndexReader_query(parts) == query_loop(<<>>, parts)

\* what search can return for the segments of a reader, one result each
search_parts(reader, query) ==
    {parts \in [1..Len(reader) ->
                    UNION {SegmentReader_search(reader[i], query) : i \in 1..Len(reader)}] :
        \A i \in 1..Len(reader) : parts[i] \in SegmentReader_search(reader[i], query)}

\* the defaults of terms_range: "\u{0000}" and "\u{fff0}"
DEFAULT_FROM == <<0>>
DEFAULT_TO == <<239, 191, 176>>

\* Option::unwrap_or
unwrap_or(opt, default) == IF opt = None THEN default ELSE opt[1]

RECURSIVE terms_range_loop(_, _, _, _)
\* the loop of IndexReader::terms_range over the segment readers
terms_range_loop(terms_set, reader, from, to) ==
    IF reader = <<>> THEN terms_set
    ELSE terms_range_loop(
             btree_extend_str(terms_set, list_terms_in_range(Head(reader), from, to)),
             Tail(reader), from, to)

\* IndexReader::terms_range
IndexReader_terms_range(reader, from_opt, to_opt) ==
    terms_range_loop(<<>>, reader,
                     unwrap_or(from_opt, DEFAULT_FROM), unwrap_or(to_opt, DEFAULT_TO))

Ok(val) == [err |-> "", val |-> val]
Err(err) == [err |-> err, val |-> <<>>]

\* a list_terms that answers a boolean query with no term
SegmentReader_list_terms_lenient(segment, query) ==
    IF query.kind \in {"Or", "And"} THEN Ok(<<>>)
    ELSE IF automaton_error(Query_matcher(query)) # ""
    THEN Err(automaton_error(Query_matcher(query)))
    ELSE LET postings_info == Postings_search(Segment_postings(segment),
                                              Query_matcher(query))
         IN Ok([i \in 1..Len(postings_info) |-> postings_info[i][1]])

\* SegmentReader::list_terms
SegmentReader_list_terms(segment, query) ==
    IF query.kind \in {"Or", "And"} THEN Err("QueryNotSupported")
    ELSE IF automaton_error(Query_matcher(query)) # ""
    THEN Err(automaton_error(Query_matcher(query)))
    ELSE LET postings_info == Postings_search(Segment_postings(segment),
                                              Query_matcher(query))
         IN Ok([i \in 1..Len(postings_info) |-> postings_info[i][1]])

RECURSIVE terms_loop_overwrite(_, _, _)
\* a loop in which the terms of each segment replace those gathered before
terms_loop_overwrite(terms_set, reader, query) ==
    IF reader = <<>> THEN Ok(terms_set)
    ELSE LET terms == SegmentReader_list_terms(Head(reader), query)
         IN IF terms.err # "" THEN terms
            ELSE terms_loop_overwrite(btree_extend_str(<<>>, terms.val), Tail(reader), query)


RECURSIVE terms_loop_matcher_first(_, _, _)
\* a terms that takes the matcher of the query before it looks for a segment
\* reader
terms_loop_matcher_first(terms_set, reader, query) ==
    IF query.kind \in {"Or", "And"} THEN Err("QueryNotSupported")
    ELSE IF automaton_error(Query_matcher(query)) # ""
    THEN Err(automaton_error(Query_matcher(query)))
    ELSE IF reader = <<>> THEN Ok(terms_set)
    ELSE LET terms == SegmentReader_list_terms(Head(reader), query)
         IN terms_loop_matcher_first(btree_extend_str(terms_set, terms.val),
                                     Tail(reader), query)

RECURSIVE terms_loop(_, _, _)
\* the loop of IndexReader::terms over the segment readers
terms_loop(terms_set, reader, query) ==
    IF reader = <<>> THEN Ok(terms_set)
    ELSE LET terms == SegmentReader_list_terms(Head(reader), query)
         IN IF terms.err # "" THEN terms
            ELSE terms_loop(btree_extend_str(terms_set, terms.val), Tail(reader), query)

\* IndexReader::terms
IndexReader_terms(reader, query) == terms_loop(<<>>, reader, query)


\* a fetch_doc that asks the newest segment only
fetch_doc_newest_only(reader, i, id) ==
    IF i = 0 THEN Err("DocNotFound")
    ELSE LET data == SegmentReader_fetch_doc(reader[i], id)
         IN IF data # None THEN Ok(data[1]) ELSE Err("DocNotFound")

RECURSIVE fetch_doc_loop(_, _, _)
\* the loop of IndexReader::fetch_doc: segment i, then i - 1, down to the first
fetch_doc_loop(reader, i, id) ==
    IF i = 0 THEN Err("DocNotFound")
    ELSE LET data == SegmentReader_fetch_doc(reader[i], id)
         IN IF data # None THEN Ok(data[1]) ELSE fetch_doc_loop(reader, i - 1, id)

\* IndexReader::fetch_doc
IndexReader_fetch_doc(reader, id) == fetch_doc_loop(reader, Len(reader), id)

----------------------------------------------------------------------------
(* Opening a segment and the index                                         *)

RECURSIVE open_store(_, _, _)
\* the loop of DocStore::open: read the (id, len) prefix of the record at
\* offset, skip the payload, until the end of the file; read_u64 fails at a
\* prefix the file does not hold in full
open_store(store, offset, index) ==
    IF offset >= Len(store) THEN Ok(index)
    ELSE IF offset + 2 * U64_NUM_BYTE > Len(store) THEN Err("Io")
    ELSE LET doc_id == from_le_bytes(SubSeq(store, offset + 1, offset + U64_NUM_BYTE))
             doc_length == from_le_bytes(SubSeq(store, offset + U64_NUM_BYTE + 1,
                                                offset + 2 * U64_NUM_BYTE))
         IN open_store(store, offset + 2 * U64_NUM_BYTE + doc_length,
                documents_insert(index, doc_id, [offset |-> offset, length |-> doc_length]))

\* DocStore::open: the index built from the file
DocStore_open(store) == open_store(store, 0, <<>>)

\* Segment::open
Segment_open(directory, segment_id) ==
    LET store == DocStore_open(directory[segment_id].docs_store)
    IN IF store.err # "" THEN store
       ELSE Ok([id |-> segment_id, index |-> store.val])

RECURSIVE sort_by_id(_)
\* sort_by_key on the segment ids
sort_by_id(opened) ==
    IF opened = {} THEN <<>>
    ELSE LET least == CHOOSE a \in opened : \A b \in opened : a = b \/ UlidLess(a.id, b.id)
         IN <<least>> \o sort_by_id(opened \ {least})

\* Index::open: the published list made of the segments of the directory
Index_open(directory) ==
    LET opened == {Segment_open(directory, id) : id \in DOMAIN directory}
    IN IF \E r \in opened : r.err # "" THEN Err("Io")
       ELSE Ok(sort_by_id({r.val : r \in opened}))

----------------------------------------------------------------------------
(* The index: writers, the indexing worker, the finalizer                  *)

\* the capacity of the channel of IndexingOp
OPS_CAPACITY == 100
\* the capacity of the channel to the finalizer
FINALIZER_CAPACITY == 10

Writers == {"w1", "w2"}

\* the documents the writers of Spec insert
WriterDocs ==
    { Document(1, <<120>>, <<T_a, T_b>>),
      Document(1, <<121, 122>>, <<T_a>>),
      Document(2, <<120>>, <<T_b, T_b>>) }

Insert(documents) == [op |-> "Insert", documents |-> documents, reply |-> None, commit |-> FALSE]
Commit(commit_reply_sender_opt) ==
    [op |-> "Commit", documents |-> <<>>, reply |-> commit_reply_sender_opt, commit |-> FALSE]
Shutdown(commit) == [op |-> "Shutdown", documents |-> <<>>, reply |-> None, commit |-> commit]

\* an index no ClickHouseStorage has been made on
NoStorage ==
    /\ memory_budget = 0
    /\ sample_budget = 0
    /\ memory_buffer = <<>>
    /\ memory_usage = 0
    /\ sample_count = 0
    /\ task = "none"
    /\ series = None
    /\ backend = <<>>
    /\ ingest = [last |-> "none", msgs |-> 0, received |-> <<>>, indexed |-> <<>>,
                 failed |-> FALSE]

\* the state of the threads and channels right after Index::open
EngineIdle ==
    /\ ops = <<>>
    /\ fin = <<>>
    /\ worker = "running"
    /\ finalizer = "recv"
    /\ finalizing = None
    /\ writer = [w \in Writers |-> "idle"]
    /\ reply = [w \in Writers |-> "none"]
    /\ index_state = "open"
    /\ clock = 0
    /\ submitted = [w \in Writers |-> <<>>]
    /\ acked = [w \in Writers |-> 0]
    /\ ncalls = 0
    /\ hist = [sent |-> 0, handled |-> 0, close |-> None, failed |-> {}]
    /\ snapshot = None

\* the ids of the segments that exist: on disk, on the way there, being written
ids_in_use ==
    DOMAIN disk \cup {committed[i].id : i \in 1..Len(committed)}
                \cup {current_segment[i].id : i \in 1..Len(current_segment)}

\* Ulid::new(): the time now, which is not before the time read last, and 80
\* random bits, which make the id differ from every other
new_ulids ==
    LET fresh == {Ulid(ts, rnd) : ts \in {t \in {clock, clock + 1} : t <= MaxClock},
                                  rnd \in 0..MaxRnd} \ ids_in_use
    IN IF fresh # {} THEN fresh
       ELSE {Ulid((IF clock > MaxClock THEN clock ELSE MaxClock) + 1, 0)}

\* the sends on the ops channel are accepted until the worker thread is gone
ops_connected == worker \notin {"exited", "panicked"}

\* IndexWriter::insert_doc
InsertDoc(w) ==
    /\ writer[w] = "idle"
    /\ ncalls < MaxCalls
    /\ ncalls' = ncalls + 1
    /\ \E document \in WriterDocs :
          IF ops_connected
          THEN /\ Len(ops) < OPS_CAPACITY
               /\ ops' = Append(ops, Insert(<<document>>))
               /\ submitted' = [submitted EXCEPT ![w] = Append(@, document)]
               /\ hist' = [hist EXCEPT !.sent = @ + 1]
               /\ UNCHANGED writer
          ELSE /\ writer' = [writer EXCEPT ![w] = "panicked"]
               /\ UNCHANGED <<ops, submitted, hist>>
    /\ UNCHANGED <<disk, segments, current_segment, log, committed, call, fin, worker,
                   finalizer, finalizing, reply, index_state, clock, acked>>
    /\ UNCHANGED <<snapshot, storage_vars>>

\* IndexWriter::commit up to the send
CommitCall(w) ==
    /\ writer[w] = "idle"
    /\ ncalls < MaxCalls
    /\ ncalls' = ncalls + 1
    /\ \E wait \in BOOLEAN :
          IF ops_connected
          THEN /\ Len(ops) < OPS_CAPACITY
               /\ ops' = Append(ops, Commit(IF wait THEN Some(w) ELSE None))
               /\ writer' = [writer EXCEPT ![w] = IF wait THEN "waiting" ELSE "idle"]
               /\ reply' = [reply EXCEPT ![w] = IF wait THEN "pending" ELSE @]
               /\ hist' = [hist EXCEPT !.sent = @ + 1]
          ELSE /\ writer' = [writer EXCEPT ![w] = "panicked"]
               /\ UNCHANGED <<ops, reply, hist>>
    /\ UNCHANGED <<disk, segments, current_segment, log, committed, call, fin, worker,
                   finalizer, finalizing, index_state, clock, submitted, acked>>
    /\ UNCHANGED <<snapshot, storage_vars>>

\* IndexWriter::commit(true) from rx.recv(): Ok when the finalizer has sent
\* it, a panic of the caller when the sender was dropped
CommitReturn(w) ==
    /\ writer[w] = "waiting"
    /\ reply[w] \in {"ok", "dropped"}
    /\ writer' = [writer EXCEPT ![w] = IF reply[w] = "ok" THEN "idle" ELSE "panicked"]
    /\ acked' = [acked EXCEPT ![w] = IF reply[w] = "ok" THEN Len(submitted[w]) ELSE @]
    /\ reply' = [reply EXCEPT ![w] = "none"]
    /\ UNCHANGED <<disk, segments, current_segment, log, committed, call, ops, fin,
                   worker, finalizer, finalizing, index_state, clock, submitted, ncalls>>
    /\ UNCHANGED <<hist, snapshot, storage_vars>>

\* drop(reply sender): the receiver of the oneshot channel sees it closed
drop_reply(replies, sender_opt) ==
    IF sender_opt = None THEN replies ELSE [replies EXCEPT ![sender_opt[1]] = "dropped"]

\* indexing_task on Insert
WorkerInsert ==
    /\ worker = "running"
    /\ ops # <<>>
    /\ Head(ops).op = "Insert"
    /\ ops' = Tail(ops)
    /\ IF current_segment = None
       THEN \E id \in new_ulids :
               /\ current_segment' =
                      Some(WritableSegment_insert(Segment_create(id), Head(ops).documents))
               /\ clock' = id[1]
       ELSE /\ current_segment' =
                   Some(WritableSegment_insert(current_segment[1], Head(ops).documents))
            /\ UNCHANGED clock
    /\ log' = log \o Head(ops).documents
    /\ UNCHANGED <<disk, segments, committed, call, fin, worker, finalizer, finalizing,
                   writer, reply, index_state, submitted, acked, ncalls>>
    /\ hist' = [hist EXCEPT !.handled = @ + 1]
    /\ UNCHANGED <<snapshot, storage_vars>>

\* a replace whose old segment is dropped instead of sent to the finalizer
replace_and_drop(id, commit_reply_sender_opt) ==
    /\ current_segment' = Some(Segment_create(id))
    /\ clock' = id[1]
    /\ log' = <<>>
    /\ reply' = drop_reply(reply, commit_reply_sender_opt)
    /\ UNCHANGED <<fin, committed>>

\* current_segment.replace(Segment::create()) followed by
\* SegmentFinalizer::finalize: a segment that holds a document is sent to the
\* finalizer, otherwise the reply sender is dropped

\* a finalize that sends the old segment whatever it holds
replace_and_finalize_any(id, commit_reply_sender_opt) ==
    /\ current_segment' = Some(Segment_create(id))
    /\ clock' = id[1]
    /\ log' = <<>>
    /\ IF current_segment # None
       THEN /\ finalizer # "failed"
            /\ Len(fin) < FINALIZER_CAPACITY
            /\ fin' = Append(fin, [segment |-> current_segment[1],
                                   reply |-> commit_reply_sender_opt])
            /\ committed' = Append(committed, [id |-> current_segment[1].id, docs |-> log])
            /\ UNCHANGED reply
       ELSE /\ reply' = drop_reply(reply, commit_reply_sender_opt)
            /\ UNCHANGED <<fin, committed>>

replace_and_finalize(id, commit_reply_sender_opt) ==
    /\ current_segment' = Some(Segment_create(id))
    /\ clock' = id[1]
    /\ log' = <<>>
    /\ IF current_segment # None /\ num_docs(current_segment[1]) > 0
       THEN /\ finalizer # "failed"
            /\ Len(fin) < FINALIZER_CAPACITY
            /\ fin' = Append(fin, [segment |-> current_segment[1],
                                   reply |-> commit_reply_sender_opt])
            /\ committed' = Append(committed, [id |-> current_segment[1].id, docs |-> log])
            /\ UNCHANGED reply
       ELSE /\ reply' = drop_reply(reply, commit_reply_sender_opt)
            /\ UNCHANGED <<fin, committed>>

\* indexing_task on Commit
WorkerCommit ==
    /\ worker = "running"
    /\ ops # <<>>
    /\ Head(ops).op = "Commit"
    /\ ops' = Tail(ops)
    /\ \E id \in new_ulids : replace_and_finalize(id, Head(ops).reply)
    /\ UNCHANGED <<disk, segments, call, worker, finalizer, finalizing, writer, index_state,
                   submitted, acked, ncalls>>
    /\ hist' = [hist EXCEPT !.handled = @ + 1]
    /\ UNCHANGED <<snapshot, storage_vars>>

\* a worker that stops the finalizer without the flush of Shutdown(true)
WorkerShutdown_no_flush ==
    /\ worker = "running"
    /\ ops # <<>>
    /\ Head(ops).op = "Shutdown"
    /\ ops' = Tail(ops)
    /\ worker' = "stopping"
    /\ hist' = [hist EXCEPT !.handled = @ + 1]
    /\ UNCHANGED <<disk, segments, call, finalizer, finalizing, writer, index_state,
                   submitted, acked, ncalls, current_segment, clock, log, fin, committed,
                   reply, snapshot, storage_vars>>

\* indexing_task on Shutdown, up to the join in SegmentFinalizer::stop

\* a worker that flushes the current segment on every Shutdown
WorkerShutdown_flush ==
    /\ worker = "running"
    /\ ops # <<>>
    /\ Head(ops).op = "Shutdown"
    /\ ops' = Tail(ops)
    /\ \E id \in new_ulids : replace_and_finalize(id, None)
    /\ worker' = "stopping"
    /\ UNCHANGED <<disk, segments, call, finalizer, finalizing, writer, index_state,
                   submitted, acked, ncalls>>
    /\ hist' = [hist EXCEPT !.handled = @ + 1]
    /\ UNCHANGED <<snapshot, storage_vars>>

WorkerShutdown ==
    /\ worker = "running"
    /\ ops # <<>>
    /\ Head(ops).op = "Shutdown"
    /\ ops' = Tail(ops)
    /\ IF Head(ops).commit
       THEN \E id \in new_ulids : replace_and_finalize(id, None)
       ELSE UNCHANGED <<current_segment, clock, log, fin, committed, reply>>
    /\ worker' = "stopping"
    /\ UNCHANGED <<disk, segments, call, finalizer, finalizing, writer, index_state,
                   submitted, acked, ncalls>>
    /\ hist' = [hist EXCEPT !.handled = @ + 1]
    /\ UNCHANGED <<snapshot, storage_vars>>

RECURSIVE drop_ops(_, _)
\* the ops still in the channel are dropped with their reply senders
drop_ops(replies, queue) ==
    IF queue = <<>> THEN replies
    ELSE drop_ops(drop_reply(replies, Head(queue).reply), Tail(queue))

\* a worker that returns without the join of the finalizer
WorkerExit_no_join ==
    /\ worker = "stopping"
    /\ worker' = "exited"
    /\ current_segment' = None
    /\ log' = <<>>
    /\ reply' = drop_ops(reply, ops)
    /\ ops' = <<>>
    /\ UNCHANGED <<disk, segments, committed, call, fin, finalizer, finalizing, writer,
                   index_state, clock, submitted, acked, ncalls, hist, snapshot, storage_vars>>

\* indexing_task from the join of the finalizer to its return
WorkerExit ==
    /\ worker = "stopping"
    /\ finalizer = "exited"
    /\ worker' = "exited"
    /\ current_segment' = None
    /\ log' = <<>>
    /\ reply' = drop_ops(reply, ops)
    /\ ops' = <<>>
    /\ UNCHANGED <<disk, segments, committed, call, fin, finalizer, finalizing, writer,
                   index_state, clock, submitted, acked, ncalls>>
    /\ UNCHANGED <<hist, snapshot, storage_vars>>

\* the finalizer: receive a writable segment and run into_segment on it
FinalizerIntoSegment ==
    /\ finalizer = "recv"
    /\ fin # <<>>
    /\ fin' = Tail(fin)
    /\ \E order \in Perms(DOMAIN Head(fin).segment.documents) :
          LET made == into_segment(Head(fin).segment, order)
          IN /\ disk' = disk @@ (made.segment.id :> made.files)
             /\ finalizing' = Some([segment |-> made.segment, reply |-> Head(fin).reply])
    /\ finalizer' = "push"
    /\ UNCHANGED <<segments, current_segment, log, committed, call, ops, worker, writer,
                   reply, index_state, clock, submitted, acked, ncalls>>
    /\ UNCHANGED <<hist, snapshot, storage_vars>>

\* a finalizer that goes on to the reply without the push
FinalizerPush_skipped ==
    /\ finalizer = "push"
    /\ finalizer' = IF finalizing[1].reply # None THEN "reply" ELSE "recv"
    /\ finalizing' = IF finalizing[1].reply # None THEN finalizing ELSE None
    /\ UNCHANGED <<disk, segments, current_segment, log, committed, call, ops, fin, worker,
                   writer, reply, index_state, clock, submitted, acked, ncalls>>
    /\ UNCHANGED <<hist, snapshot, storage_vars>>


\* a finalizer that puts the new segment at the head of the list
FinalizerPush_front ==
    /\ finalizer = "push"
    /\ segments' = <<finalizing[1].segment>> \o segments
    /\ finalizer' = IF finalizing[1].reply # None THEN "reply" ELSE "recv"
    /\ finalizing' = IF finalizing[1].reply # None THEN finalizing ELSE None
    /\ UNCHANGED <<disk, current_segment, log, committed, call, ops, fin, worker, writer,
                   reply, index_state, clock, submitted, acked, ncalls, hist, snapshot, storage_vars>>

\* a finalizer whose push is seen through the readers taken before it
FinalizerPush_shared ==
    /\ finalizer = "push"
    /\ segments' = Append(segments, finalizing[1].segment)
    /\ snapshot' = IF snapshot = None THEN None
                   ELSE Some([snapshot[1] EXCEPT !.reader = Append(@, finalizing[1].segment)])
    /\ finalizer' = IF finalizing[1].reply # None THEN "reply" ELSE "recv"
    /\ finalizing' = IF finalizing[1].reply # None THEN finalizing ELSE None
    /\ UNCHANGED <<disk, current_segment, log, committed, call, ops, fin, worker, writer,
                   reply, index_state, clock, submitted, acked, ncalls, hist,
                   storage_vars>>

\* the finalizer: push the segment under the write lock
FinalizerPush ==
    /\ finalizer = "push"
    /\ segments' = Append(segments, finalizing[1].segment)
    /\ finalizer' = IF finalizing[1].reply # None THEN "reply" ELSE "recv"
    /\ finalizing' = IF finalizing[1].reply # None THEN finalizing ELSE None
    /\ UNCHANGED <<disk, current_segment, log, committed, call, ops, fin, worker, writer,
                   reply, index_state, clock, submitted, acked, ncalls>>
    /\ UNCHANGED <<hist, snapshot, storage_vars>>

\* the finalizer: reply_sender.send(Ok(()))
FinalizerReply ==
    /\ finalizer = "reply"
    /\ reply' = [reply EXCEPT ![finalizing[1].reply[1]] = "ok"]
    /\ finalizer' = "recv"
    /\ finalizing' = None
    /\ UNCHANGED <<disk, segments, current_segment, log, committed, call, ops, fin,
                   worker, writer, index_state, clock, submitted, acked, ncalls>>
    /\ UNCHANGED <<hist, snapshot, storage_vars>>

\* the finalizer: the channel is empty and its sender dropped, the loop ends
FinalizerExit ==
    /\ finalizer = "recv"
    /\ fin = <<>>
    /\ worker = "stopping"
    /\ finalizer' = "exited"
    /\ UNCHANGED <<disk, segments, current_segment, log, committed, call, ops, fin,
                   worker, finalizing, writer, reply, index_state, clock, submitted, acked,
                   ncalls>>
    /\ UNCHANGED <<hist, snapshot, storage_vars>>

\* nothing is on its way to the published list: no op in the channel, no
\* document in the writable segment, the finalizer idle
quiescent ==
    /\ ops = <<>>
    /\ fin = <<>>
    /\ finalizer = "recv"
    /\ current_segment = None \/ num_docs(current_segment[1]) = 0

\* the send of Index::close
close_send(commit) ==
    /\ Len(ops) < OPS_CAPACITY
    /\ ops' = Append(ops, Shutdown(commit))
    /\ index_state' = "closing"
    /\ hist' = [hist EXCEPT
                   !.sent = @ + 1,
                   !.close = Some([commit |-> commit,
                                   sent |-> hist.sent,
                                   docs |-> UNION {Range(submitted[w]) : w \in Writers},
                                   quiet |-> quiescent,
                                   reader |-> Index_reader])]

\* Index::close up to the join of the worker
Close ==
    /\ index_state = "open"
    /\ ncalls < MaxCalls
    /\ ncalls' = ncalls + 1
    /\ \E commit \in BOOLEAN : close_send(commit)
    /\ UNCHANGED <<disk, segments, current_segment, log, committed, call, fin, worker,
                   finalizer, finalizing, writer, reply, clock, submitted, acked, snapshot, storage_vars>>

\* Index::close from the join of the worker: the Index is gone
CloseReturn ==
    /\ index_state = "closing"
    /\ worker = "exited"
    /\ index_state' = "closed"
    /\ segments' = <<>>
    /\ UNCHANGED <<disk, current_segment, log, committed, call, ops, fin, worker,
                   finalizer, finalizing, writer, reply, clock, submitted, acked,
                   ncalls>>
    /\ UNCHANGED <<hist, snapshot, storage_vars>>

\* Index::open on the directory: new channels, threads and writers
Open ==
    /\ index_state = "closed"
    /\ Index_open(disk).err = ""
    /\ segments' = Index_open(disk).val
    /\ index_state' = "open"
    /\ ops' = <<>>
    /\ fin' = <<>>
    /\ worker' = "running"
    /\ finalizer' = "recv"
    /\ finalizing' = None
    /\ writer' = [w \in Writers |-> "idle"]
    /\ reply' = [w \in Writers |-> "none"]
    /\ submitted' = [w \in Writers |-> <<>>]
    /\ acked' = [w \in Writers |-> 0]
    /\ UNCHANGED <<disk, current_segment, log, committed, call, clock, ncalls>>
    /\ hist' = [hist EXCEPT !.sent = 0, !.handled = 0]
    /\ UNCHANGED <<snapshot, storage_vars>>

Init ==
    /\ disk = <<>>
    /\ segments = <<>>
    /\ current_segment = None
    /\ log = <<>>
    /\ committed = <<>>
    /\ call = [api |-> "none"]
    /\ EngineIdle
    /\ NoStorage

Next ==
    \/ \E w \in Writers : InsertDoc(w)
    \/ \E w \in Writers : CommitCall(w)
    \/ \E w \in Writers : CommitReturn(w)
    \/ WorkerInsert
    \/ WorkerCommit
    \/ WorkerShutdown
    \/ WorkerExit
    \/ FinalizerIntoSegment
    \/ FinalizerPush
    \/ FinalizerReply
    \/ FinalizerExit
    \/ Close
    \/ CloseReturn
    \/ Open

Spec == Init /\ [][Next]_vars

\* the steps of one writer, the worker and the finalizer while the index is open
Next1 ==
    \/ InsertDoc("w1")
    \/ CommitCall("w1")
    \/ CommitReturn("w1")
    \/ WorkerInsert
    \/ WorkerCommit
    \/ FinalizerIntoSegment
    \/ FinalizerPush
    \/ FinalizerReply

\* Index::close up to the join of the worker, called once
CloseOnce ==
    /\ index_state = "open"
    /\ hist.close = None
    /\ \E commit \in BOOLEAN : close_send(commit)
    /\ UNCHANGED <<disk, segments, current_segment, log, committed, call, fin, worker,
                   finalizer, finalizing, writer, reply, clock, submitted, acked, ncalls,
                   snapshot, storage_vars>>

NextReopen ==
    \/ Next1
    \/ CloseOnce
    \/ WorkerShutdown
    \/ WorkerExit
    \/ FinalizerExit
    \/ CloseReturn
    \/ Open

\* one writer, then one close and one Index::open of the directory
SpecReopen == Init /\ [][NextReopen]_vars

----------------------------------------------------------------------------
(* The worker's handling of a segment, run from insert to publication      *)
(* without the channels: the driver of SpecSegment and SpecReader          *)

C_x == <<120>>
C_yz == <<121, 122>>

NoCall == [api |-> "none"]

\* indexing_task on Insert, applied to a writable segment that exists
DirectInsert(documents, max_docs) ==
    /\ current_segment # None
    /\ Len(log) < max_docs
    /\ \E document \in documents :
          /\ current_segment' =
                 Some(WritableSegment_insert(current_segment[1], <<document>>))
          /\ log' = Append(log, document)
    /\ call' = NoCall
    /\ UNCHANGED <<disk, segments, committed>>
    /\ UNCHANGED engine_vars

\* indexing_task on Commit followed by the finalizer's into_segment and push;
\* finalize() passes on only a segment that holds a document
DirectCommit(max_segs) ==
    /\ current_segment # None
    /\ num_docs(current_segment[1]) > 0
    /\ \E order \in Perms(DOMAIN current_segment[1].documents) :
          LET made == into_segment(current_segment[1], order)
          IN /\ disk' = disk @@ (made.segment.id :> made.files)
             /\ segments' = Append(segments, made.segment)
    /\ committed' = Append(committed, [id |-> current_segment[1].id, docs |-> log])
    /\ current_segment' =
           IF Len(segments) + 1 < max_segs
           THEN Some(Segment_create(Ulid(Len(segments) + 1, 0)))
           ELSE None
    /\ log' = <<>>
    /\ call' = NoCall
    /\ UNCHANGED engine_vars

InitDirect ==
    /\ disk = <<>>
    /\ segments = <<>>
    /\ current_segment = Some(Segment_create(Ulid(0, 0)))
    /\ log = <<>>
    /\ committed = <<>>
    /\ call = [api |-> "none"]
    /\ EngineIdle
    /\ NoStorage

T_Leaves == {Q_Equal(T_a), Q_Equal(T_b), Q_NotEqual(T_a)}

T_Operands == T_Leaves \cup {Q_And(Q_Equal(T_a), Q_Equal(T_b)), Q_Or(Q_Equal(T_a), Q_Equal(T_b))}

\* the queries the callers pass to search
SegQueries ==
    T_Leaves \cup {Q_And(l, r) : l \in T_Operands, r \in T_Operands}
             \cup {Q_Or(l, r) : l \in T_Operands, r \in T_Operands}

\* SegmentReader::search on the published segment
SegSearch ==
    /\ segments # <<>>
    /\ call = NoCall
    /\ \E query \in SegQueries :
          \E run \in evaluate_runs(Segment_postings(segments[1]), query) :
              call' = [api |-> "search", query |-> query,
                       left |-> run.left, right |-> run.right, result |-> run.result]
    /\ UNCHANGED <<disk, segments, current_segment, log, committed>>
    /\ UNCHANGED engine_vars

\* the documents inserted into the segment of SpecSegment
SegDocs ==
    { Document(1, C_x, <<T_a, T_b>>),
      Document(2, C_yz, <<T_a>>),
      Document(3, C_x, <<T_b, T_b>>),
      Document(1, C_yz, <<T_ab>>) }

\* Segment::open on the directory of the published segment, then the same
\* search on the segment into_segment returned and on the opened one
SegRoundTrip ==
    /\ segments # <<>>
    /\ call = NoCall
    /\ LET opened == Segment_open(disk, segments[1].id)
       IN IF opened.err # ""
          THEN call' = [api |-> "round_trip", opened |-> opened]
          ELSE \E query \in SegQueries :
                  \E result \in SegmentReader_search(segments[1], query),
                     reopened \in SegmentReader_search(opened.val, query) :
                      call' = [api |-> "round_trip", opened |-> opened, query |-> query,
                               result |-> result, reopened |-> reopened]
    /\ UNCHANGED <<disk, segments, current_segment, log, committed>>
    /\ UNCHANGED engine_vars


\* DocStore::open on the docs.store of the published segment cut short: the
\* first n bytes of the file
OpenTruncated ==
    /\ segments # <<>>
    /\ call = NoCall
    /\ LET store == disk[segments[1].id].docs_store
       IN \E n \in 0..(Len(store) - 1) :
             call' = [api |-> "open_truncated", cut |-> SubSeq(store, 1, n),
                      result |-> DocStore_open(SubSeq(store, 1, n))]
    /\ UNCHANGED <<disk, segments, current_segment, log, committed>>
    /\ UNCHANGED engine_vars

NextStore ==
    \/ DirectInsert(SegDocs, MaxSegDocs)
    \/ DirectCommit(1)
    \/ OpenTruncated

\* one segment written, and its docs.store opened after a truncation
SpecStore == InitDirect /\ [][NextStore]_vars

NextSegment ==
    \/ DirectInsert(SegDocs, MaxSegDocs)
    \/ DirectCommit(1)
    \/ SegSearch
    \/ SegRoundTrip

SpecSegment == InitDirect /\ [][NextSegment]_vars

----------------------------------------------------------------------------
(* The read API on a snapshot of several segments                          *)

\* the documents inserted into the segments of SpecReader
ReaderDocs ==
    { Document(1, C_x, <<T_a, T_b>>),
      Document(1, C_yz, <<T_ab>>),
      Document(2, C_yz, <<T_a>>),
      Document(3, <<>>, <<T_empty, T_fff0, T_emoji>>) }

\* the queries the callers pass to IndexReader::query
ReaderQueries ==
    {Q_All, Q_Equal(T_a), Q_NotEqual(T_a), Q_StartsWith(T_a), Q_NotStartsWith(T_a),
     Q_Or(Q_Equal(T_a), Q_Equal(T_b)), Q_And(Q_Equal(T_a), Q_Equal(T_b)),
     Q_Or(Q_Equal(T_ab), Q_StartsWith(T_a)), Q_And(Q_Equal(T_a), Q_Equal(T_ab))}

\* the bounds the callers pass to IndexReader::terms_range
RangeBounds == {None, Some(T_empty), Some(T_a), Some(T_ab), Some(T_b), Some(T_emoji)}

\* IndexReader::query on a reader taken now
ReaderQuery ==
    /\ call = NoCall
    /\ \E query \in ReaderQueries :
          \E parts \in search_parts(Index_reader, query) :
              call' = [api |-> "query", query |-> query, parts |-> parts,
                       result |-> IndexReader_query(parts)]
    /\ UNCHANGED <<disk, segments, current_segment, log, committed>>
    /\ UNCHANGED engine_vars

\* IndexReader::terms_range on a reader taken now
ReaderTermsRange ==
    /\ call = NoCall
    /\ \E from_opt \in RangeBounds, to_opt \in RangeBounds :
          call' = [api |-> "terms_range", from |-> from_opt, to |-> to_opt,
                   result |-> IndexReader_terms_range(Index_reader, from_opt, to_opt)]
    /\ UNCHANGED <<disk, segments, current_segment, log, committed>>
    /\ UNCHANGED engine_vars

\* the pattern a.*
P_a_any == <<97, 46, 42>>

\* the queries the callers pass to IndexReader::terms
TermsQueries ==
    {Q_All, Q_Equal(T_a), Q_NotEqual(T_a), Q_StartsWith(T_a), Q_NotStartsWith(T_a),
     Q_Fuzzy(T_a, 1), Q_NotFuzzy(T_ab, 1), Q_Regex(P_a_any), Q_NotRegex(P_a_any),
     Q_Or(Q_Equal(T_a), Q_Equal(T_b)), Q_And(Q_Equal(T_a), Q_Equal(T_b))}

\* IndexReader::terms on a reader taken now
ReaderTerms ==
    /\ call = NoCall
    /\ \E query \in TermsQueries :
          call' = [api |-> "terms", query |-> query,
                   result |-> IndexReader_terms(Index_reader, query)]
    /\ UNCHANGED <<disk, segments, current_segment, log, committed>>
    /\ UNCHANGED engine_vars

\* IndexReader::fetch_doc on a reader taken now
ReaderFetchDoc ==
    /\ call = NoCall
    /\ \E id \in 1..3 :
          call' = [api |-> "fetch_doc", id |-> id,
                   result |-> IndexReader_fetch_doc(Index_reader, id)]
    /\ UNCHANGED <<disk, segments, current_segment, log, committed>>
    /\ UNCHANGED engine_vars


\* the pattern *
P_star == <<42>>

\* a distance whose automaton Levenshtein::new refuses
D_bad == MaxFuzzyDistance + 1

\* queries with a leaf whose automaton cannot be built
InvalidQueries ==
    {Q_Regex(P_star), Q_NotRegex(P_star), Q_Fuzzy(T_a, D_bad), Q_NotFuzzy(T_a, D_bad),
     Q_And(Q_Equal(T_a), Q_Regex(P_star)), Q_Or(Q_Regex(P_star), Q_Equal(T_a)),
     Q_Or(Q_Fuzzy(T_a, D_bad), Q_Regex(P_star)),
     Q_And(Q_Or(Q_Equal(T_a), Q_NotFuzzy(T_a, D_bad)), Q_All)}

\* IndexReader::query: the loop runs search on each segment reader and the ?
\* returns the error of the first; no segment, no search
IndexReader_query_results(reader, query) ==
    IF reader # <<>> /\ evaluate_error(query) # "" THEN {Err(evaluate_error(query))}
    ELSE {Ok(IndexReader_query(parts)) : parts \in search_parts(reader, query)}

\* IndexReader::terms and IndexReader::query, on a reader taken now, with a
\* query that holds an invalid leaf
ReaderInvalid ==
    /\ call = NoCall
    /\ \E query \in InvalidQueries :
          \/ call' = [api |-> "terms_invalid", query |-> query,
                      result |-> IndexReader_terms(Index_reader, query)]
          \/ \E result \in IndexReader_query_results(Index_reader, query) :
                call' = [api |-> "query_invalid", query |-> query, result |-> result]
    /\ UNCHANGED <<disk, segments, current_segment, log, committed>>
    /\ UNCHANGED engine_vars

NextReader ==
    \/ DirectInsert(ReaderDocs, MaxBatch)
    \/ DirectCommit(MaxSegs)
    \/ ReaderQuery
    \/ ReaderTermsRange
    \/ ReaderTerms
    \/ ReaderFetchDoc
    \/ ReaderInvalid

SpecReader == InitDirect /\ [][NextReader]_vars

\* what the calls on an IndexReader can return: for query, whose order within
\* a segment is the iteration order of a hash set, every result it can give
reader_results(reader) ==
    [terms |-> [query \in TermsQueries |-> IndexReader_terms(reader, query)],
     terms_range |-> [bounds \in RangeBounds \X RangeBounds |->
                         IndexReader_terms_range(reader, bounds[1], bounds[2])],
     query |-> [query \in ReaderQueries |->
                   {IndexReader_query(parts) : parts \in search_parts(reader, query)}],
     fetch_doc |-> [id \in 1..3 |-> IndexReader_fetch_doc(reader, id)]]

\* Index::reader: the clone of the published list under the read lock, kept
\* with what its calls return at this instant
TakeReader ==
    /\ index_state = "open"
    /\ snapshot = None
    /\ snapshot' = Some([reader |-> Index_reader, results |-> reader_results(Index_reader)])
    /\ UNCHANGED <<disk, segments, current_segment, log, committed, call, ops, fin,
                   worker, finalizer, finalizing, writer, reply, index_state, clock,
                   submitted, acked, ncalls, hist,
                   storage_vars>>

NextSnapshot ==
    \/ Next1
    \/ TakeReader

RECURSIVE drop_segments(_, _)
\* the segments still in the channel are dropped with their reply senders
drop_segments(replies, queue) ==
    IF queue = <<>> THEN replies
    ELSE drop_segments(drop_reply(replies, Head(queue).reply), Tail(queue))

\* the writers that wait for the answer to the commit of a segment
waiting_on(sender_opt) == IF sender_opt = None THEN {} ELSE {sender_opt[1]}

\* the finalizer: into_segment returns an error before it has written a file,
\* the ? returns it from the thread; the receiver of the channel and the
\* reply sender of the segment are dropped, nothing is sent
FinalizerFail ==
    /\ finalizer = "recv"
    /\ fin # <<>>
    /\ finalizer' = "failed"
    /\ fin' = <<>>
    /\ reply' = drop_segments(reply, fin)
    /\ hist' = [hist EXCEPT !.failed = @ \cup waiting_on(Head(fin).reply)]
    /\ UNCHANGED <<disk, segments, current_segment, log, committed, call, ops, worker,
                   finalizing, writer, index_state, clock, submitted, acked, ncalls,
                   snapshot, storage_vars>>

\* indexing_task on Commit when the finalizer thread is gone: the send in
\* SegmentFinalizer::finalize returns an error and its unwrap panics; the ops
\* receiver and every reply sender in the channel are dropped
WorkerPanic ==
    /\ worker = "running"
    /\ ops # <<>>
    /\ Head(ops).op = "Commit"
    /\ current_segment # None
    /\ num_docs(current_segment[1]) > 0
    /\ finalizer = "failed"
    /\ worker' = "panicked"
    /\ reply' = drop_ops(reply, ops)
    /\ ops' = <<>>
    /\ current_segment' = None
    /\ log' = <<>>
    /\ UNCHANGED <<disk, segments, committed, call, fin, finalizer, finalizing, writer,
                   index_state, clock, submitted, acked, ncalls, hist, snapshot, storage_vars>>


\* one writer, the worker, the finalizer and one close of the index
NextClose ==
    \/ Next1
    \/ CloseOnce
    \/ WorkerShutdown
    \/ WorkerExit
    \/ FinalizerExit
    \/ CloseReturn

SpecClose == Init /\ [][NextClose]_vars


\* calls of Index::reader in SpecBounded
MaxReads == 1

\* the document the writer of SpecBounded inserts
ScriptDoc == Document(1, C_x, <<T_a>>)

\* the calls the writer of SpecBounded makes, in order: one insert more than
\* the ops channel holds, a commit(true), then more pairs of insert and
\* commit(false) than the finalizer channel holds
ScriptInserts == OPS_CAPACITY + 1

ScriptLen == ScriptInserts + 1 + 2 * (FINALIZER_CAPACITY + 2)

\* the commits of the script, each of a segment with one document or more
ScriptCommits == 1 + (FINALIZER_CAPACITY + 2)

script_op(n) ==
    IF n <= ScriptInserts THEN "insert"
    ELSE IF n = ScriptInserts + 1 THEN "commit_wait"
    ELSE IF (n - ScriptInserts) % 2 = 0 THEN "insert"
    ELSE "commit"

\* IndexWriter::insert_doc: the send blocks while the ops channel is full
ScriptInsert ==
    /\ writer["w1"] = "idle"
    /\ ncalls < ScriptLen
    /\ script_op(ncalls + 1) = "insert"
    /\ Len(ops) < OPS_CAPACITY
    /\ ncalls' = ncalls + 1
    /\ ops' = Append(ops, Insert(<<ScriptDoc>>))
    /\ submitted' = [submitted EXCEPT !["w1"] = Append(@, ScriptDoc)]
    /\ hist' = [hist EXCEPT !.sent = @ + 1]
    /\ UNCHANGED <<disk, segments, current_segment, log, committed, call, fin, worker,
                   finalizer, finalizing, writer, reply, index_state, clock, acked, snapshot,
                   storage_vars>>

\* IndexWriter::commit up to the send, which blocks while the ops channel is
\* full
ScriptCommit ==
    /\ writer["w1"] = "idle"
    /\ ncalls < ScriptLen
    /\ script_op(ncalls + 1) \in {"commit", "commit_wait"}
    /\ Len(ops) < OPS_CAPACITY
    /\ ncalls' = ncalls + 1
    /\ LET wait == script_op(ncalls + 1) = "commit_wait"
       IN /\ ops' = Append(ops, Commit(IF wait THEN Some("w1") ELSE None))
          /\ writer' = [writer EXCEPT !["w1"] = IF wait THEN "waiting" ELSE "idle"]
          /\ reply' = [reply EXCEPT !["w1"] = IF wait THEN "pending" ELSE @]
    /\ hist' = [hist EXCEPT !.sent = @ + 1]
    /\ UNCHANGED <<disk, segments, current_segment, log, committed, call, fin, worker,
                   finalizer, finalizing, index_state, clock, submitted, acked, snapshot,
                   storage_vars>>

\* a caller of Index::reader holds the read lock of the published list
read_locked == call.api = "reader" /\ call.at = "locked"

\* Index::reader is called
ReaderCall ==
    /\ index_state = "open"
    /\ \/ call.api = "none" /\ call' = [api |-> "reader", at |-> "wait", reads |-> 1]
       \/ /\ call.api = "reader"
          /\ call.at = "done"
          /\ call.reads < MaxReads
          /\ call' = [call EXCEPT !.at = "wait", !.reads = @ + 1]
    /\ UNCHANGED <<disk, segments, current_segment, log, committed, engine_vars>>

\* Index::reader: segments.read(); the finalizer holds the write lock only
\* within its push, which is one step
ReaderLock ==
    /\ call.api = "reader"
    /\ call.at = "wait"
    /\ call' = [call EXCEPT !.at = "locked"]
    /\ UNCHANGED <<disk, segments, current_segment, log, committed, engine_vars>>

\* a reader that asks for the read lock again instead of dropping it
ReaderUnlock_relock ==
    /\ read_locked
    /\ call' = [call EXCEPT !.at = "wait"]
    /\ UNCHANGED <<disk, segments, current_segment, log, committed, engine_vars>>

\* Index::reader: the segment readers are collected and the lock is dropped
ReaderUnlock ==
    /\ read_locked
    /\ call' = [call EXCEPT !.at = "done"]
    /\ UNCHANGED <<disk, segments, current_segment, log, committed, engine_vars>>

\* the finalizer's segments.write(), push and drop of the lock: it waits
\* while a reader holds the read lock
FinalizerLockedPush ==
    /\ ~read_locked
    /\ FinalizerPush

NextBounded ==
    \/ ScriptInsert
    \/ ScriptCommit
    \/ CommitReturn("w1")
    \/ WorkerInsert
    \/ WorkerCommit
    \/ FinalizerIntoSegment
    \/ FinalizerLockedPush
    \/ FinalizerReply
    \/ ReaderCall
    \/ ReaderLock
    \/ ReaderUnlock

\* the worker can take the op at the head of the channel: a Commit of a
\* segment with documents waits while the finalizer channel is full
worker_enabled ==
    /\ worker = "running"
    /\ ops # <<>>
    /\ (Head(ops).op = "Commit" /\ current_segment # None
           /\ num_docs(current_segment[1]) > 0)
       => Len(fin) < FINALIZER_CAPACITY

finalizer_enabled ==
    \/ finalizer = "recv" /\ fin # <<>>
    \/ finalizer = "push" /\ ~read_locked
    \/ finalizer = "reply"

reader_enabled == call.api = "reader" /\ call.at \in {"wait", "locked"}

\* the writer can make the next call of its script or return from commit
writer_enabled ==
    \/ writer["w1"] = "idle" /\ ncalls < ScriptLen /\ Len(ops) < OPS_CAPACITY
    \/ writer["w1"] = "waiting" /\ reply["w1"] \in {"ok", "dropped"}

\* some thread among the writer, the worker, the finalizer and the caller of
\* reader() can take a step
thread_enabled == writer_enabled \/ worker_enabled \/ finalizer_enabled \/ reader_enabled

\* the threads keep being scheduled: the engine does not halt while one of
\* them can take a step. Every step of NextBounded moves one thread forward
\* in a finite run, so this is weak fairness of every thread
SpecBounded ==
    /\ Init
    /\ [][NextBounded]_vars
    /\ ([]<>~thread_enabled) \/ ([]<><<TRUE>>_vars)


\* C36: with the ops channel bounded at 100 and the finalizer channel at 10,
\* and threads that keep being scheduled, nothing stays blocked: the writer
\* gets through all its sends, every op sent is handled by the worker, every
\* segment handed to the finalizer is published, and no caller of reader()
\* is left waiting for the read lock
C36_NoDeadlock ==
    <>[](/\ ncalls = ScriptLen
         /\ writer["w1"] = "idle"
         /\ hist.handled = hist.sent
         /\ fin = <<>>
         /\ finalizer = "recv"
         /\ Len(segments) = ScriptCommits
         /\ call.api = "reader" => call.at = "done")

\* the finalizer channel is full, the worker waits to hand over a segment and a
\* reader holds the read lock while the finalizer waits to publish
C36_Witness ==
    /\ ops # <<>>
    /\ Head(ops).op = "Commit"
    /\ current_segment # None
    /\ num_docs(current_segment[1]) > 0
    /\ Len(fin) = FINALIZER_CAPACITY
    /\ finalizer = "push"
    /\ read_locked

\* the ops channel is full and the writer waits to send
C36_WitnessOps == Len(ops) = OPS_CAPACITY /\ ncalls < ScriptLen

NextFail ==
    \/ Next1
    \/ FinalizerFail
    \/ WorkerPanic

\* one writer, and a finalizer whose into_segment can fail
SpecFail == Init /\ [][NextFail]_vars

\* the loop of indexing_task has an op to receive
worker_ready == worker = "running" /\ ops # <<>>

\* the loop of the finalizer thread has a segment to receive or holds one
finalizer_ready == finalizer \in {"push", "reply"} \/ (finalizer = "recv" /\ fin # <<>>)

\* one writer, with a worker thread and a finalizer thread that keep running:
\* each of them takes its next step whenever its channel holds a message
\* weak fairness of the two threads, with the enabling condition and the
\* step of each thread written out: the worker can step when it runs and its
\* channel holds an op, and each of its steps counts one op handled; the
\* finalizer can step when it holds a segment or its channel does, and each
\* of its steps moves it to its next position
SpecLive ==
    /\ Init
    /\ [][Next1]_vars
    /\ ([]<>~worker_ready) \/ ([]<><<hist'.handled # hist.handled>>_vars)
    /\ ([]<>~finalizer_ready) \/ ([]<><<finalizer' # finalizer>>_vars)

\* one writer and one reader taken at any instant
SpecSnapshot == Init /\ [][NextSnapshot]_vars

----------------------------------------------------------------------------
(* Properties of commit and of fetch_doc on the running index              *)

DocIds == {document.id : document \in WriterDocs}

\* the posting list of a term in a published segment, empty for a term the
\* dictionary of the segment does not hold
postings_of(segment, term) ==
    LET postings == Segment_postings(segment)
        dict == postings.term_dictionary
        hits == {i \in 1..Len(dict) : dict[i][1] = term}
    IN IF hits = {} THEN <<>>
       ELSE Postings_postings(postings, dict[CHOOSE i \in hits : TRUE][2])

\* the segment holds the document: its id is in the document store and on the
\* posting list of each of its terms
Segment_contains(segment, document) ==
    /\ SegmentReader_fetch_doc(segment, document.id) # None
    /\ \A term \in Range(document.terms) :
           document.id \in Range(postings_of(segment, term))

\* a reader taken now finds the document in a segment
Visible(document) ==
    \E i \in 1..Len(Index_reader) : Segment_contains(Index_reader[i], document)

\* C1: once commit(wait = true) has been answered with Ok, and from then on,
\* every document the writer inserted before that commit is in a segment of
\* the published list; the finalizer sends the answer only after the push
C1_CommitWaitVisible ==
    index_state # "closed" =>
        /\ \A w \in Writers :
               \A k \in 1..(IF reply[w] = "ok" THEN Len(submitted[w]) ELSE acked[w]) :
                   Visible(submitted[w][k])
        /\ finalizer = "reply" =>
               \E i \in 1..Len(segments) : segments[i] = finalizing[1].segment

\* a commit(wait = true) has returned Ok to a writer that had inserted before
C1_Witness ==
    /\ index_state = "open"
    /\ \E w \in Writers : acked[w] > 0 /\ writer[w] = "idle"

\* the positions in what the writer has sent at which the DocId was inserted
inserts_of(w, id) == {k \in 1..Len(submitted[w]) : submitted[w][k].id = id}

\* the greatest element of a non-empty set of numbers
Max(S) == CHOOSE x \in S : \A y \in S : y <= x

\* C2: when a DocId was inserted through one writer only and a commit(wait =
\* true) of that writer has returned after the last of these inserts,
\* fetch_doc of the DocId returns the content of that last insert, whatever
\* else is inserted and committed afterwards
C2_LastWriteWins ==
    index_state # "closed" =>
        \A w \in Writers : \A id \in DocIds :
            ( /\ inserts_of(w, id) # {}
              /\ \A v \in Writers \ {w} : inserts_of(v, id) = {}
              /\ Max(inserts_of(w, id)) <= acked[w] )
            => IndexReader_fetch_doc(Index_reader, id)
                   = Ok(submitted[w][Max(inserts_of(w, id))].content)

\* a DocId inserted twice with different content by one writer, the second
\* insert covered by a returned commit(true), and another DocId inserted later
C2_Witness ==
    /\ index_state = "open"
    /\ \E w \in Writers : \E id \in DocIds :
          /\ \A v \in Writers \ {w} : inserts_of(v, id) = {}
          /\ Cardinality(inserts_of(w, id)) >= 2
          /\ Max(inserts_of(w, id)) <= acked[w]
          /\ \E j, k \in inserts_of(w, id) :
                 submitted[w][j].content # submitted[w][k].content
          /\ \E v \in Writers : \E k \in 1..Len(submitted[v]) :
                 submitted[v][k].id # id /\ (v = w => k > acked[w])

\* the commits, in commit order, whose segment is published and holds the DocId
commits_of(id) ==
    {k \in 1..Len(committed) :
        /\ \E i \in 1..Len(segments) : segments[i].id = committed[k].id
        /\ \E j \in 1..Len(committed[k].docs) : committed[k].docs[j].id = id}

\* the content the segment of a commit holds for the DocId: that of the last
\* insert of the DocId into it
content_in(k, id) ==
    LET docs == committed[k].docs
    IN docs[Max({j \in 1..Len(docs) : docs[j].id = id})].content

\* C3: when several published segments hold a DocId, fetch_doc returns the
\* document of the one committed last
C3_NewestSegmentWins ==
    index_state = "open" =>
        \A id \in DocIds :
            Cardinality(commits_of(id)) >= 2
            => IndexReader_fetch_doc(Index_reader, id)
                   = Ok(content_in(Max(commits_of(id)), id))

\* the segment Segment::open makes of a directory of the disk
opened_segment(id) == [id |-> id, index |-> DocStore_open(disk[id].docs_store).val]

\* a finalized segment on disk holds the document
OnDisk(document) ==
    \E id \in DOMAIN disk : Segment_contains(opened_segment(id), document)

\* the contents inserted under a DocId into the segments handed to the finalizer
committed_contents(id) ==
    UNION {{committed[k].docs[j].content :
                j \in {j \in 1..Len(committed[k].docs) : committed[k].docs[j].id = id}} :
           k \in 1..Len(committed)}

\* the worker thread has been joined: close is about to return
close_joined == index_state = "closing" /\ worker = "exited"

C18_CloseDrains ==
    (close_joined \/ index_state = "closed") =>
        /\ worker = "exited"
        /\ finalizer = "exited"
        /\ fin = <<>>
        /\ finalizing = None
        /\ hist.handled >= hist.close[1].sent + 1
        /\ \A k \in 1..Len(committed) :
               /\ committed[k].id \in DOMAIN disk
               /\ close_joined =>
                      \E i \in 1..Len(segments) : segments[i].id = committed[k].id

\* close has returned after a call made while ops or segments were in flight
C18_Witness ==
    /\ index_state = "closed"
    /\ hist.close[1].sent > 0
    /\ ~hist.close[1].quiet
    /\ committed # <<>>

\* C19: a writer whose commit(wait = true) submitted a segment on which
\* into_segment failed is waiting for the answer or has been handed an error
\* result
C19_CommitReturnsFinalizerError ==
    \A w \in hist.failed : writer[w] \in {"waiting", "error"}

\* C20: once the finalizer or the worker has exited with an error, each call
\* of a writer operation ends with an error result for its caller
C20_OpsFailAfterWorkerError ==
    [][((finalizer = "failed" \/ worker = "panicked") /\ ncalls' # ncalls)
          => \E w \in Writers : writer'[w] = "error"]_vars

\* a commit(wait = false) has returned and its Commit is still in the channel;
\* the document was inserted before it and is in the channel ahead of it or
\* in the writable segment
commit_pending(document) ==
    \E i \in 1..Len(ops) :
        /\ ops[i].op = "Commit"
        /\ ops[i].reply = None
        /\ \/ document \in Range(log)
           \/ \E j \in 1..(i - 1) :
                  ops[j].op = "Insert" /\ document \in Range(ops[j].documents)

\* C16: with the worker and the finalizer running and no failure, a document
\* inserted before a commit(wait = false) that has returned is, from some
\* instant on the way, in a segment of the list new readers clone
C16_CommitNoWaitEventuallyVisible ==
    \A document \in WriterDocs : commit_pending(document) ~> Visible(document)

\* commit(wait = false) has returned and the document is not visible yet
C16_Witness ==
    \E document \in WriterDocs : commit_pending(document) /\ ~Visible(document)

\* C15: whatever is inserted, committed and published after reader() was
\* called, the terms, terms_range, query and fetch_doc calls of that reader
\* return what they returned at the instant of the call
C15_ReaderIsSnapshot ==
    snapshot # None => reader_results(snapshot[1].reader) = snapshot[1].results

\* a reader that holds a segment, and a segment published after it was taken
C15_Witness ==
    /\ snapshot # None
    /\ snapshot[1].reader # <<>>
    /\ Len(segments) > Len(snapshot[1].reader)

\* the ids of the segments of a list
ids_of(list) == {list[i].id : i \in 1..Len(list)}

\* C13: after a close called when nothing was in flight and Index::open on the
\* directory, and until a segment is published again, a reader of the reopened
\* index gives for every DocId the fetch_doc result and for every query the
\* terms result that a reader taken just before the close gives
C13_ReopenSameResults ==
    (/\ index_state = "open"
     /\ hist.close # None
     /\ hist.close[1].quiet
     /\ ids_of(segments) = ids_of(hist.close[1].reader)) =>
        /\ \A id \in DocIds :
               IndexReader_fetch_doc(Index_reader, id)
                   = IndexReader_fetch_doc(hist.close[1].reader, id)
        /\ \A query \in TermsQueries :
               IndexReader_terms(Index_reader, query)
                   = IndexReader_terms(hist.close[1].reader, query)

\* C14: the published list is strictly ascending in the segment id, after
\* Index::open and after every push of the finalizer
C14_PublishedSortedById ==
    \A i \in 1..Len(segments) : \A j \in 1..Len(segments) :
        i < j => UlidLess(segments[i].id, segments[j].id)

----------------------------------------------------------------------------
(* Properties of a finalized segment and of the search in it               *)

StrictlyAscending(s) == \A i \in 1..(Len(s) - 1) : s[i] < s[i + 1]

BytesStrictlyAscending(s) == \A i \in 1..(Len(s) - 1) : BytesLess(s[i], s[i + 1])

\* C4: in every finalized segment the keys of the term dictionary are strictly
\* ascending and every posting list is strictly ascending, with no DocId twice
C4_FinalizedSorted ==
    \A id \in DOMAIN disk :
        LET postings == [term_dictionary |-> disk[id].term_dictionary,
                         posting_list |-> disk[id].posting_list]
            dict == postings.term_dictionary
        IN /\ BytesStrictlyAscending([i \in 1..Len(dict) |-> dict[i][1]])
           /\ \A i \in 1..Len(dict) :
                  StrictlyAscending(Postings_postings(postings, dict[i][2]))

\* C5: search(And(L, R)) returns exactly the DocIds that are both in what the
\* evaluation of L returned and in what the evaluation of R returned
C5_AndIsIntersection ==
    (call.api = "search" /\ call.query.kind = "And")
        => Range(call.result) = Range(call.left) \cap Range(call.right)

\* C6: search(Or(L, R)) returns exactly the DocIds that are in what the
\* evaluation of L returned or in what the evaluation of R returned
C6_OrIsUnion ==
    (call.api = "search" /\ call.query.kind = "Or")
        => Range(call.result) = Range(call.left) \cup Range(call.right)

\* an Or of a boolean and a leaf operand whose results overlap without being equal
C6_Witness ==
    /\ call.api = "search"
    /\ call.query.kind = "Or"
    /\ call.query.left.kind = "And"
    /\ Range(call.left) \cap Range(call.right) # {}
    /\ Range(call.right) \ Range(call.left) # {}
    /\ Range(call.result) = Range(call.right)

\* C7: the sequence search returns for an Or or And query is ascending and
\* holds no DocId twice
C7_BoolResultAscending ==
    (call.api = "search" /\ call.query.kind \in {"Or", "And"})
        => StrictlyAscending(call.result)

----------------------------------------------------------------------------
(* Properties of the index reader                                          *)

\* the terms a sequence of documents lists
TermsOf(docs) == UNION {Range(docs[j].terms) : j \in 1..Len(docs)}

\* the terms of the documents of the published segments
PublishedTerms ==
    UNION {TermsOf(committed[k].docs) :
              k \in {k \in 1..Len(committed) :
                        \E n \in 1..Len(segments) : segments[n].id = committed[k].id}}

\* C8: IndexReader.query returns a strictly ascending list that holds exactly
\* the DocIds search returned for some segment of the snapshot, whatever the
\* age of the segment
C8_QueryIsUnionOfSegments ==
    call.api = "query"
        => /\ StrictlyAscending(call.result)
           /\ Len(call.parts) = Len(segments)
           /\ \A i \in 1..Len(segments) :
                  call.parts[i] \in SegmentReader_search(segments[i], call.query)
           /\ Range(call.result) = UNION {Range(call.parts[i]) : i \in 1..Len(call.parts)}

\* a DocId matched only by the terms of an older segment, with a newer segment
\* holding an update of the document, is returned
C8_Witness ==
    /\ call.api = "query"
    /\ \E i \in 1..Len(segments), j \in 1..Len(segments), id \in 1..3 :
          /\ i < j
          /\ id \in Range(call.parts[i])
          /\ id \in DOMAIN segments[j].index
          /\ id \notin Range(call.parts[j])
          /\ id \in Range(call.result)

\* C12: the segment Segment::open makes of the directory into_segment wrote
\* gives for every DocId the fetch_doc result, and for every query the set of
\* DocIds, that the segment into_segment returned gives
C12_RoundTrip ==
    call.api = "round_trip"
        => /\ call.opened.err = ""
           /\ \A id \in 1..3 :
                  SegmentReader_fetch_doc(call.opened.val, id)
                      = SegmentReader_fetch_doc(segments[1], id)
           /\ Range(call.reopened) = Range(call.result)

\* the published terms the matcher of a leaf query accepts
AcceptedTerms(query) ==
    {term \in PublishedTerms :
        automaton_accepts(Query_matcher(query), term) # Query_matcher(query).complement}

\* C11: IndexReader.terms of a leaf query returns, strictly ascending, exactly
\* the terms of the documents of the snapshot segments that the matcher of the
\* query accepts, or for a Not* query does not accept; a term of several
\* segments comes once
C11_TermsIsUnionOfSegments ==
    (call.api = "terms" /\ call.query.kind \notin {"Or", "And"})
        => /\ call.result.err = ""
           /\ BytesStrictlyAscending(call.result.val)
           /\ Range(call.result.val) = AcceptedTerms(call.query)

\* terms of a Not* query on two segments that share a term the query accepts
C11_Witness ==
    /\ call.api = "terms"
    /\ call.query.kind \in {"NotEqual", "NotStartsWith", "NotFuzzy", "NotRegex"}
    /\ Len(segments) = 2
    /\ \E term \in Range(call.result.val) :
           term \in TermsOf(committed[1].docs) \cap TermsOf(committed[2].docs)

\* C9: terms_range(None, None) returns every term of every published segment,
\* each once, in ascending order
C9_TermsRangeAll ==
    (call.api = "terms_range" /\ call.from = None /\ call.to = None)
        => /\ BytesStrictlyAscending(call.result)
           /\ Range(call.result) = PublishedTerms

\* C10: terms_range(from, to) returns exactly the terms t of the snapshot with
\* from <= t < to in byte order, ascending and each once
C10_TermsRangeClosedOpen ==
    (call.api = "terms_range" /\ call.from # None /\ call.to # None)
        => /\ BytesStrictlyAscending(call.result)
           /\ Range(call.result) =
                  {t \in PublishedTerms :
                      BytesLessEq(call.from[1], t) /\ BytesLess(t, call.to[1])}

\* a range whose lower bound is an indexed term, returned, and whose upper
\* bound is an indexed term, left out, over two segments that share a term
C10_Witness ==
    /\ call.api = "terms_range"
    /\ call.from # None
    /\ call.to # None
    /\ Len(segments) = 2
    /\ disk[segments[1].id].term_dictionary[1][1] = disk[segments[2].id].term_dictionary[1][1]
    /\ call.from[1] \in Range(call.result)
    /\ call.to[1] \in PublishedTerms
    /\ call.to[1] \notin Range(call.result)

----------------------------------------------------------------------------
(* Errors of the reader                                                    *)

\* the DocIds of the documents inserted into the published segments
held_ids ==
    UNION {{committed[k].docs[j].id : j \in 1..Len(committed[k].docs)} :
           k \in {k \in 1..Len(committed) : committed[k].id \in ids_of(segments)}}

\* C21: fetch_doc(id) returns DocNotFound exactly when no document with that
\* id was inserted into a segment of the snapshot; otherwise it returns the
\* content of a document inserted under that id
C21_DocNotFoundIffAbsent ==
    call.api = "fetch_doc"
        => /\ call.result.err \in {"", "DocNotFound"}
           /\ call.result.err = "DocNotFound" <=> call.id \notin held_ids
           /\ call.result.err = "" => call.result.val \in committed_contents(call.id)

\* a miss on a reader of two segments, neither of which holds the id
C21_Witness ==
    /\ call.api = "fetch_doc"
    /\ Len(segments) = 2
    /\ call.result.err = "DocNotFound"

\* a boolean query was passed to IndexReader::terms
terms_of_boolean ==
    call.api \in {"terms", "terms_invalid"} /\ call.query.kind \in {"Or", "And"}

\* C22 as stated: IndexReader.terms of an And or Or query yields
\* QueryNotSupported on every reader
C22_TermsOfBooleanNotSupported ==
    terms_of_boolean => call.result.err = "QueryNotSupported"

\* C22, amended: IndexReader.terms of an And or Or query yields
\* QueryNotSupported on a reader whose snapshot holds a segment, whatever the
\* leaves of the query
C22_TermsOfBooleanOnSegments ==
    (terms_of_boolean /\ segments # <<>>) => call.result.err = "QueryNotSupported"

\* terms of a boolean query on a reader of two segments
C22_Witness ==
    /\ terms_of_boolean
    /\ Len(segments) = 2
    /\ call.result.err = "QueryNotSupported"

RECURSIVE leaf_errors(_)
\* the parse errors of the invalid leaves of a query
leaf_errors(query) ==
    IF query.kind \in {"Or", "And"}
    THEN leaf_errors(query.left) \cup leaf_errors(query.right)
    ELSE {automaton_error(Query_matcher(query))} \ {""}

\* terms or query was called with a query that holds an invalid leaf
invalid_call == call.api \in {"terms_invalid", "query_invalid"}

\* C23 as stated: query and terms called with a query that holds an invalid
\* regex pattern or Levenshtein distance, nested under And/Or or not, return
\* the parse error of such a leaf
C23_InvalidLeafIsParseError ==
    invalid_call => call.result.err \in leaf_errors(call.query)

\* C23, amended: on a reader whose snapshot holds a segment, query returns the
\* parse error of an invalid leaf of its query, nested under And/Or or not,
\* and terms returns the parse error of an invalid leaf query
C23_InvalidLeafOnSegments ==
    (invalid_call /\ segments # <<>>) =>
        /\ call.api = "query_invalid" => call.result.err \in leaf_errors(call.query)
        /\ (call.api = "terms_invalid" /\ call.query.kind \notin {"Or", "And"})
               => call.result.err \in leaf_errors(call.query)

\* query on a reader of two segments with the invalid leaf as the right operand
C23_Witness ==
    /\ call.api = "query_invalid"
    /\ Len(segments) = 2
    /\ call.query.kind \in {"Or", "And"}
    /\ leaf_errors(call.query.left) = {}
    /\ call.result.err \in {"Regex", "Levenshtein"}

\* C24: on a reader whose snapshot has no segment, terms, terms_range and
\* query return an empty list and no error, for every query: leaf, boolean,
\* or with a leaf whose automaton cannot be built
C24_EmptyReaderEmptyResults ==
    segments = <<>> =>
        /\ call.api \in {"query", "terms_range"} => call.result = <<>>
        /\ call.api \in {"terms", "terms_invalid", "query_invalid"}
               => call.result = Ok(<<>>)

\* terms of a boolean query or of an invalid query on the empty reader, with
\* documents waiting in the writable segment
C24_Witness ==
    /\ segments = <<>>
    /\ log # <<>>
    /\ call.api \in {"terms", "terms_invalid"}
    /\ call.query.kind \in {"Or", "And"}

\* the offsets at which the records of the published docs.store start
record_starts == {segments[1].index[id].offset : id \in DOMAIN segments[1].index}

\* C25: DocStore::open of a docs.store cut in the middle of a record, inside
\* the 16-byte prefix or inside the payload, returns an error, and no store
\* it returns has an index entry that reaches past the end of the file
C25_TruncatedStoreFailsOpen ==
    call.api = "open_truncated" =>
        /\ Len(call.cut) \notin record_starts => call.result.err # ""
        /\ call.result.err = "" =>
               \A id \in DOMAIN call.result.val :
                   call.result.val[id].offset + 2 * U64_NUM_BYTE
                       + call.result.val[id].length <= Len(call.cut)

----------------------------------------------------------------------------
(* The published list                                                      *)

\* the documents handed to the finalizer under a segment id
committed_docs(id) ==
    LET k == CHOOSE k \in 1..Len(committed) : committed[k].id = id IN committed[k].docs

\* the segment directory on disk is complete: the docs.store opens to the
\* index of the segment, holds every DocId inserted and the dictionary every
\* term inserted
completely_written(segment) ==
    /\ segment.id \in DOMAIN disk
    /\ DocStore_open(disk[segment.id].docs_store) = Ok(segment.index)
    /\ DOMAIN segment.index
           = {committed_docs(segment.id)[j].id : j \in 1..Len(committed_docs(segment.id))}
    /\ {disk[segment.id].term_dictionary[n][1] :
            n \in 1..Len(disk[segment.id].term_dictionary)}
           = TermsOf(committed_docs(segment.id))

\* C26: whatever is inserted, committed and read, a step leaves the published
\* list as it is or appends segments to it; an appended segment was completely
\* written by into_segment before the step, and the files of a segment already
\* published are the same after the step
C26_PublishedImmutable ==
    [][/\ Len(segments') >= Len(segments)
       /\ SubSeq(segments', 1, Len(segments)) = segments
       /\ \A i \in (Len(segments) + 1)..Len(segments') : completely_written(segments'[i])
       /\ \A i \in 1..Len(segments) :
              /\ segments[i].id \in DOMAIN disk'
              /\ disk'[segments[i].id] = disk[segments[i].id]]_vars

\* a second segment was appended after a reader was taken on the first
C26_Witness ==
    /\ Len(segments) = 2
    /\ snapshot # None
    /\ Len(snapshot[1].reader) = 1
    /\ completely_written(segments[2])

----------------------------------------------------------------------------
(* The ingestion buffer of the ClickHouse storage (crate `storage`)        *)

\* messages the ingestion task receives in SpecStorage
MaxMsgs == 2
SERIES_NAME_LABEL == <<95, 95, 110, 97, 109, 101, 95, 95>>
SIZE_OF_SAMPLE == 16
\* the values xx::hash64 is modelled to take
HashSpace == 65536

Label(name, value) == [name |-> name, value |-> value]
Sample(timestamp, value) == [timestamp |-> timestamp, value |-> value]

\* xx::hash64: a function of the bytes alone
RECURSIVE xx_hash64(_)
xx_hash64(bytes) ==
    IF bytes = <<>> THEN 0
    ELSE (xx_hash64(SubSeq(bytes, 1, Len(bytes) - 1)) * 31 + bytes[Len(bytes)]) % HashSpace

\* Vec<String>::join
RECURSIVE join(_, _)
join(strings, sep) ==
    IF strings = <<>> THEN <<>>
    ELSE IF Len(strings) = 1 THEN strings[1]
    ELSE strings[1] \o sep \o join(Tail(strings), sep)


\* a long name that joins the labels in the order given
long_name_unsorted(labels) ==
    join([i \in 1..Len(labels) |-> labels[i].name \o <<95>> \o labels[i].value], <<45>>)

\* TimeSeriesInfo::new: the "name_value" strings sorted and joined with "-"
long_name(labels) ==
    join(SortSeq([i \in 1..Len(labels) |-> labels[i].name \o <<95>> \o labels[i].value],
                 BytesLess),
         <<45>>)

\* TimeSeriesInfo::new: the id
series_id(labels) == xx_hash64(long_name(labels))

\* TimeSeriesInfo::new: the value of the first label called __name__
series_name(labels) ==
    labels[CHOOSE i \in 1..Len(labels) :
               /\ labels[i].name = SERIES_NAME_LABEL
               /\ \A j \in 1..(i - 1) : labels[j].name # SERIES_NAME_LABEL].value

RECURSIVE labels_size(_)
labels_size(labels) ==
    IF labels = <<>> THEN 0
    ELSE Len(Head(labels).name) + Len(Head(labels).value) + labels_size(Tail(labels))

\* TimeSeries::new
TimeSeries_new(labels, samples) ==
    [id |-> series_id(labels), name |-> series_name(labels), labels |-> labels,
     samples |-> samples, size_bytes |-> labels_size(labels) + SIZE_OF_SAMPLE + Len(samples)]

\* an extend that keeps only the samples that came last
TimeSeries_extend_replace(entry, samples) ==
    [entry EXCEPT !.size_bytes = @ + SIZE_OF_SAMPLE * Len(samples), !.samples = samples]

\* TimeSeries::extend
TimeSeries_extend(entry, samples) ==
    [entry EXCEPT !.size_bytes = @ + SIZE_OF_SAMPLE * Len(samples), !.samples = @ \o samples]

\* serde_json::to_string of a string without quotes, backslashes and control
\* characters
json_string(s) == <<34>> \o s \o <<34>>

\* serde_json::to_string(&labels): [{"name":"..","value":".."},..]
json_labels(labels) ==
    <<91>> \o join([i \in 1..Len(labels) |->
                       <<123>> \o json_string(<<110, 97, 109, 101>>) \o <<58>>
                               \o json_string(labels[i].name) \o <<44>>
                               \o json_string(<<118, 97, 108, 117, 101>>) \o <<58>>
                               \o json_string(labels[i].value) \o <<125>>],
                   <<44>>) \o <<93>>

\* the document handle_received_series makes of a series not yet buffered
series_document(s) ==
    Document(s.id, json_labels(s.labels),
             [i \in 1..Len(s.labels) |-> s.labels[i].name \o <<58>> \o s.labels[i].value])

\* the loop of handle_received_series over a message: the locals of the
\* ingestion task and the documents sent to the index writer, in order
RECURSIVE handle_received_loop(_, _)
handle_received_loop(st, time_series) ==
    IF time_series = <<>> THEN st
    ELSE LET s == Head(time_series)
             usage == st.memory_usage + s.size_bytes
             count == st.sample_count + Len(s.samples)
         IN handle_received_loop(
                IF s.id \in DOMAIN st.memory_buffer
                THEN [st EXCEPT !.memory_usage = usage, !.sample_count = count,
                                !.memory_buffer[s.id] = TimeSeries_extend(@, s.samples)]
                ELSE [st EXCEPT !.memory_usage = usage, !.sample_count = count,
                                !.memory_buffer = (s.id :> s) @@ @,
                                !.sent = Append(@, series_document(s))],
                Tail(time_series))

\* ClickHouseClient::insert: one row for each sample of each series
RECURSIVE insert_rows(_)
insert_rows(time_series) ==
    IF time_series = <<>> THEN <<>>
    ELSE [i \in 1..Len(Head(time_series).samples) |->
              [series_id |-> Head(time_series).id,
               timestamp |-> Head(time_series).samples[i].timestamp,
               value |-> Head(time_series).samples[i].value]]
         \o insert_rows(Tail(time_series))

L_m == <<Label(SERIES_NAME_LABEL, <<109>>)>>
L_m_job == <<Label(SERIES_NAME_LABEL, <<109>>), Label(<<106, 111, 98>>, <<97>>)>>
L_job_m == <<Label(<<106, 111, 98>>, <<97>>), Label(SERIES_NAME_LABEL, <<109>>)>>
S_1 == Sample(1, 5)
S_2 == Sample(2, 7)

\* the messages the callers of ClickHouseStorage::write send: no series, one
\* series, a series without samples, a series twice, two series, and one
\* series under two orders of its labels
Messages ==
    { <<>>,
      <<TimeSeries_new(L_m, <<S_1>>)>>,
      <<TimeSeries_new(L_m, <<S_2, S_1>>)>>,
      <<TimeSeries_new(L_m, <<>>)>>,
      <<TimeSeries_new(L_m_job, <<S_1>>)>>,
      <<TimeSeries_new(L_m, <<S_1>>), TimeSeries_new(L_m, <<S_2>>)>>,
      <<TimeSeries_new(L_m, <<S_1>>), TimeSeries_new(L_m_job, <<S_1>>)>>,
      <<TimeSeries_new(L_m_job, <<S_1>>), TimeSeries_new(L_job_m, <<S_2>>)>> }

\* the budgets ClickHouseStorage::new is called with: one the bytes reach,
\* one the samples reach, one of zero
MiB == 1048576
SmallMemoryBudget == 50
SmallSampleBudget == 2
Budgets == {<<SmallMemoryBudget, MiB>>, <<MiB, SmallSampleBudget>>, <<0, MiB>>}

\* the writer of the ingestion task
TaskWriter == "w1"

\* ClickHouseStorage::new on an empty index directory
InitStorage ==
    /\ disk = <<>>
    /\ segments = <<>>
    /\ current_segment = None
    /\ log = <<>>
    /\ committed = <<>>
    /\ call = [api |-> "none"]
    /\ EngineIdle
    /\ \E budgets \in Budgets :
          /\ memory_budget = budgets[1]
          /\ sample_budget = budgets[2]
    /\ memory_buffer = <<>>
    /\ memory_usage = 0
    /\ sample_count = 0
    /\ task = "select"
    /\ series = None
    /\ backend = <<>>
    /\ ingest = [last |-> "none", msgs |-> 0, received |-> <<>>, indexed |-> <<>>,
                 failed |-> FALSE]

\* history: the samples of a message added to those received under each id
RECURSIVE received_after(_, _)
received_after(received, time_series) ==
    IF time_series = <<>> THEN received
    ELSE LET s == Head(time_series)
         IN received_after(
                IF s.id \in DOMAIN received
                THEN [received EXCEPT ![s.id] = @ \o s.samples]
                ELSE (s.id :> s.samples) @@ received,
                Tail(time_series))

\* a handle_received_series that indexes every series it is given
handle_received_index_all(st, time_series) ==
    [handle_received_loop(st, time_series) EXCEPT
        !.sent = st.sent \o [i \in 1..Len(time_series) |-> series_document(time_series[i])]]

\* handle_received_series
handle_received_series(st, time_series) == handle_received_loop(st, time_series)

\* the select! branch of receiver.recv(): a message of ClickHouseStorage::write
Received ==
    /\ task = "select"
    /\ ingest.msgs < MaxMsgs
    /\ \E time_series \in Messages :
          LET st == handle_received_series(
                        [memory_buffer |-> memory_buffer, memory_usage |-> memory_usage,
                         sample_count |-> sample_count, sent |-> <<>>], time_series)
          IN IF st.sent = <<>> \/ ops_connected
             THEN /\ Len(ops) + Len(st.sent) <= OPS_CAPACITY
                  /\ ops' = ops \o [i \in 1..Len(st.sent) |-> Insert(<<st.sent[i]>>)]
                  /\ submitted' = [submitted EXCEPT ![TaskWriter] = @ \o st.sent]
                  /\ hist' = [hist EXCEPT !.sent = @ + Len(st.sent)]
                  /\ memory_buffer' = st.memory_buffer
                  /\ memory_usage' = st.memory_usage
                  /\ sample_count' = st.sample_count
                  /\ ingest' = [last |-> "received", msgs |-> ingest.msgs + 1,
                                received |-> received_after(ingest.received, time_series),
                                indexed |-> ingest.indexed
                                    \o [i \in 1..Len(st.sent) |-> st.sent[i].id],
                                failed |-> ingest.failed]
                  /\ UNCHANGED <<task, writer>>
             ELSE /\ task' = "panicked"
                  /\ writer' = [writer EXCEPT ![TaskWriter] = "panicked"]
                  /\ UNCHANGED <<ops, submitted, hist, memory_buffer, memory_usage,
                                 sample_count, ingest>>
    /\ UNCHANGED <<disk, segments, current_segment, log, committed, call, fin, worker,
                   finalizer, finalizing, reply, index_state, clock, acked, ncalls, snapshot,
                   memory_budget, sample_budget, series, backend>>

\* a condition that lets every tick with something buffered commit
commit_due_any == memory_usage > 0 \/ sample_count > 0

\* handle_commit_ticker: the condition of the commit
commit_due == memory_usage >= memory_budget \/ sample_count >= sample_budget

\* the select! branch of interval.tick() when no commit is due
TickIdle ==
    /\ task = "select"
    /\ ~commit_due
    /\ ingest' = [ingest EXCEPT !.last = "tick"]
    /\ UNCHANGED <<disk, segments, current_segment, log, committed, call, index_vars,
                   memory_budget, sample_budget, memory_buffer, memory_usage, sample_count,
                   task, series, backend>>

\* the select! branch of interval.tick() when a commit is due: mem::replace of
\* the buffer and the collect of its values, in the order of the HashMap
TickSwap ==
    /\ task = "select"
    /\ commit_due
    /\ memory_buffer' = <<>>
    /\ \E order \in Perms(DOMAIN memory_buffer) :
          series' = Some([i \in 1..Len(order) |-> memory_buffer[order[i]]])
    /\ task' = "insert"
    /\ ingest' = [ingest EXCEPT !.last = "swap", !.received = <<>>, !.indexed = <<>>]
    /\ UNCHANGED <<disk, segments, current_segment, log, committed, call, index_vars,
                   memory_budget, sample_budget, memory_usage, sample_count, backend>>

\* an insert whose failure puts the batch back into the buffer
TickInsert_rebuffer ==
    /\ task = "insert"
    /\ \E stored \in BOOLEAN :
          /\ backend' = IF stored THEN backend \o insert_rows(series[1]) ELSE backend
          /\ memory_buffer' =
                 IF stored THEN memory_buffer
                 ELSE [id \in {series[1][i].id : i \in 1..Len(series[1])} |->
                          series[1][CHOOSE i \in 1..Len(series[1]) : series[1][i].id = id]]
          /\ ingest' = [ingest EXCEPT !.failed = ~stored]
    /\ series' = None
    /\ task' = "commit"
    /\ UNCHANGED <<disk, segments, current_segment, log, committed, call, index_vars,
                   memory_budget, sample_budget, memory_usage, sample_count>>

\* click_house_client.insert(series).await: the rows are stored, or the
\* insert fails and the error is printed
TickInsert ==
    /\ task = "insert"
    /\ \E stored \in BOOLEAN :
          /\ backend' = IF stored THEN backend \o insert_rows(series[1]) ELSE backend
          /\ ingest' = [ingest EXCEPT !.failed = ~stored]
    /\ series' = None
    /\ task' = "commit"
    /\ UNCHANGED <<disk, segments, current_segment, log, committed, call, index_vars,
                   memory_budget, sample_budget, memory_buffer, memory_usage, sample_count>>

\* index_writer.commit(true) up to the send
TickCommit ==
    /\ task = "commit"
    /\ IF ops_connected
       THEN /\ Len(ops) < OPS_CAPACITY
            /\ ops' = Append(ops, Commit(Some(TaskWriter)))
            /\ writer' = [writer EXCEPT ![TaskWriter] = "waiting"]
            /\ reply' = [reply EXCEPT ![TaskWriter] = "pending"]
            /\ hist' = [hist EXCEPT !.sent = @ + 1]
            /\ task' = "wait"
       ELSE /\ writer' = [writer EXCEPT ![TaskWriter] = "panicked"]
            /\ task' = "panicked"
            /\ UNCHANGED <<ops, reply, hist>>
    /\ UNCHANGED <<disk, segments, current_segment, log, committed, call, fin, worker,
                   finalizer, finalizing, index_state, clock, submitted, acked, ncalls,
                   snapshot, memory_budget, sample_budget, memory_buffer, memory_usage,
                   sample_count, series, backend, ingest>>

\* a handler that zeroes memory_usage and leaves sample_count as it is
TickDone_keep_count ==
    /\ task = "wait"
    /\ reply[TaskWriter] \in {"ok", "dropped"}
    /\ IF reply[TaskWriter] = "ok"
       THEN /\ writer' = [writer EXCEPT ![TaskWriter] = "idle"]
            /\ acked' = [acked EXCEPT ![TaskWriter] = Len(submitted[TaskWriter])]
            /\ memory_usage' = 0
            /\ task' = "select"
            /\ ingest' = [ingest EXCEPT !.last = "commit"]
       ELSE /\ writer' = [writer EXCEPT ![TaskWriter] = "panicked"]
            /\ task' = "panicked"
            /\ UNCHANGED <<acked, memory_usage, ingest>>
    /\ reply' = [reply EXCEPT ![TaskWriter] = "none"]
    /\ UNCHANGED <<disk, segments, current_segment, log, committed, call, ops, fin,
                   worker, finalizer, finalizing, index_state, clock, submitted, ncalls,
                   hist, snapshot, memory_budget, sample_budget, memory_buffer, series,
                   backend, sample_count>>

\* index_writer.commit(true) from rx.recv() and the rest of the handler: the
\* counters are zeroed, or the task panics because the sender was dropped
TickDone ==
    /\ task = "wait"
    /\ reply[TaskWriter] \in {"ok", "dropped"}
    /\ IF reply[TaskWriter] = "ok"
       THEN /\ writer' = [writer EXCEPT ![TaskWriter] = "idle"]
            /\ acked' = [acked EXCEPT ![TaskWriter] = Len(submitted[TaskWriter])]
            /\ memory_usage' = 0
            /\ sample_count' = 0
            /\ task' = "select"
            /\ ingest' = [ingest EXCEPT !.last = "commit"]
       ELSE /\ writer' = [writer EXCEPT ![TaskWriter] = "panicked"]
            /\ task' = "panicked"
            /\ UNCHANGED <<acked, memory_usage, sample_count, ingest>>
    /\ reply' = [reply EXCEPT ![TaskWriter] = "none"]
    /\ UNCHANGED <<disk, segments, current_segment, log, committed, call, ops, fin,
                   worker, finalizer, finalizing, index_state, clock, submitted, ncalls,
                   hist, snapshot, memory_budget, sample_budget, memory_buffer, series,
                   backend>>

NextStorage ==
    \/ Received
    \/ TickIdle
    \/ TickSwap
    \/ TickInsert
    \/ TickCommit
    \/ TickDone
    \/ WorkerInsert
    \/ WorkerCommit
    \/ FinalizerIntoSegment
    \/ FinalizerPush
    \/ FinalizerReply

SpecStorage == InitStorage /\ [][NextStorage]_vars

----------------------------------------------------------------------------
(* The ingestion buffer and the index                                      *)

\* C27: in no reachable state does the backend hold a sample of a series
\* whose document a reader of the published segments does not find
C27_DocVisibleBeforeSamples ==
    \A i \in 1..Len(backend) :
        IndexReader_fetch_doc(Index_reader, backend[i].series_id).err = ""

\* how often a row is among the rows
count_rows(rows, row) == Cardinality({i \in 1..Len(rows) : rows[i] = row})

\* the batch holds one series for each id received since the last swap, with
\* the samples received under that id, in the order received
batch_is_received(batch, received) ==
    /\ Len(batch) = Cardinality(DOMAIN received)
    /\ {batch[i].id : i \in 1..Len(batch)} = DOMAIN received
    /\ \A i \in 1..Len(batch) : batch[i].samples = received[batch[i].id]

\* the rows are the samples of the batch, each under the id of its series and
\* as often as the batch holds it
rows_are_batch(rows, batch) ==
    /\ \A k \in 1..Len(rows) :
          \E i \in 1..Len(batch) : \E j \in 1..Len(batch[i].samples) :
              rows[k] = [series_id |-> batch[i].id,
                         timestamp |-> batch[i].samples[j].timestamp,
                         value |-> batch[i].samples[j].value]
    /\ \A i \in 1..Len(batch) : \A j \in 1..Len(batch[i].samples) :
          count_rows(rows, [series_id |-> batch[i].id,
                            timestamp |-> batch[i].samples[j].timestamp,
                            value |-> batch[i].samples[j].value])
              = Cardinality({n \in 1..Len(batch[i].samples) :
                                 batch[i].samples[n] = batch[i].samples[j]})

\* C28: a tick that finds memory_usage >= memory_budget or sample_count >=
\* sample_budget takes out of the buffer exactly the samples received since
\* the last swap, each under its series id; what it submits to the backend
\* are these samples, none lost and none twice; it then sends Commit with a
\* reply sender; and when commit(true) is over the buffer is empty and both
\* counters are zero
C28_DueTickCommitsBatch ==
    [][/\ (task = "select" /\ commit_due /\ ingest' # ingest
              /\ ingest'.last \in {"tick", "swap"})
          => /\ task' = "insert"
             /\ memory_buffer' = <<>>
             /\ series' # None
             /\ batch_is_received(series'[1], ingest.received)
       /\ (task = "insert" /\ task' # "insert")
          => /\ task' = "commit"
             /\ \E rows \in {insert_rows(series[1])} :
                   /\ rows_are_batch(rows, series[1])
                   /\ backend' \in {backend, backend \o rows}
       /\ (task = "commit" /\ task' # "commit")
          => /\ task' = "wait"
             /\ ops' = Append(ops, Commit(Some(TaskWriter)))
       /\ (task = "wait" /\ task' # "wait")
          => /\ memory_buffer' = <<>>
             /\ memory_usage' = 0
             /\ sample_count' = 0]_vars

\* a commit tick is over whose batch held a series received twice and another
\* series, and the backend stored it
C28_Witness ==
    /\ task = "select"
    /\ ingest.last = "commit"
    /\ memory_buffer = <<>>
    /\ memory_usage = 0
    /\ sample_count = 0
    /\ Len(backend) = 3
    /\ Cardinality({backend[i].series_id : i \in 1..Len(backend)}) = 2
    /\ series_id(L_m_job) = series_id(L_job_m)
    /\ series_id(L_m_job) # series_id(L_m)

new_ops == SubSeq(ops', Len(ops) + 1, Len(ops'))

\* C30: a received message sends one Insert of one document for each series
\* id it holds that was not buffered, the DocId being the series id, and none
\* for an id that was; a series that was buffered keeps its labels and has
\* the samples appended; and in every state the buffered series ids are the
\* DocIds sent to the index writer since the last swap, each sent once
C30_DocSentIffNotBuffered ==
    /\ [](/\ DOMAIN memory_buffer = Range(ingest.indexed)
          /\ Len(ingest.indexed) = Cardinality(DOMAIN memory_buffer)
          /\ \A id \in DOMAIN memory_buffer : memory_buffer[id].id = id)
    /\ [][ingest'.msgs # ingest.msgs
          => /\ IsPrefix(ops, ops')
             /\ \A k \in 1..Len(new_ops) :
                   /\ new_ops[k].op = "Insert"
                   /\ Len(new_ops[k].documents) = 1
             /\ {new_ops[k].documents[1].id : k \in 1..Len(new_ops)}
                    = DOMAIN memory_buffer' \ DOMAIN memory_buffer
             /\ Len(new_ops) = Cardinality(DOMAIN memory_buffer' \ DOMAIN memory_buffer)
             /\ \A id \in DOMAIN memory_buffer :
                   /\ id \in DOMAIN memory_buffer'
                   /\ memory_buffer'[id].labels = memory_buffer[id].labels
                   /\ IsPrefix(memory_buffer[id].samples, memory_buffer'[id].samples)]_vars

\* two series are buffered, each indexed once, and one of them was received
\* again while it was buffered
C30_Witness ==
    /\ task = "select"
    /\ ingest.msgs = 2
    /\ Cardinality(DOMAIN memory_buffer) = 2
    /\ Len(ingest.indexed) = 2
    /\ \E id \in DOMAIN memory_buffer :
          /\ Len(memory_buffer[id].samples) = 2
          /\ memory_buffer[id].labels = L_m_job
          /\ memory_buffer[id].samples = <<S_1, S_2>>

\* C31: when the insert of a swapped-out batch into the backend fails, the
\* backend and the buffer stay as they are (the batch is not put back), the
\* handler goes on to send the Commit with its reply sender, and when the
\* commit of a batch that held a series returns the counters are zero and the
\* task is back at its select, where later messages are received
C31_FailedInsertIsDropped ==
    [][/\ (task = "insert" /\ task' # "insert" /\ ingest'.failed)
          => /\ backend' = backend
             /\ memory_buffer' = memory_buffer
             /\ memory_buffer' = <<>>
             /\ series' = None
             /\ task' = "commit"
       /\ (task = "commit" /\ ingest.failed /\ task' # "commit")
          => /\ task' = "wait"
             /\ ops' = Append(ops, Commit(Some(TaskWriter)))
             /\ memory_buffer' = <<>>
       /\ (task = "wait" /\ ingest.failed /\ memory_usage > 0 /\ task' # "wait")
          => /\ task' = "select"
             /\ memory_usage' = 0
             /\ sample_count' = 0
             /\ memory_buffer' = <<>>
             /\ backend' = backend]_vars

\* after a failed insert of a batch with samples the task has received a
\* later message, and the lost samples are neither stored nor buffered
C31_Witness ==
    /\ task = "select"
    /\ ingest.failed
    /\ ingest.last = "received"
    /\ ingest.msgs = 2
    /\ backend = <<>>
    /\ DOMAIN memory_buffer = {series_id(L_m_job)}
    /\ memory_usage = memory_buffer[series_id(L_m_job)].size_bytes
    /\ memory_buffer[series_id(L_m_job)].samples = <<S_1>>
    /\ sample_count = 1
    /\ segments # <<>>

----------------------------------------------------------------------------
(* The series id                                                           *)

\* the labels of the series the callers make: the name of the series, and
\* label names of which one is the other followed by a digit
LabelPool ==
    { Label(SERIES_NAME_LABEL, <<109>>), Label(<<97>>, <<120>>), Label(<<97, 49>>, <<120>>),
      Label(<<106, 111, 98>>, <<97>>) }

\* the label lists TimeSeriesInfo::new is called with: no label twice, one
\* of them __name__
LabelLists ==
    {labels \in UNION {Perms(pool) : pool \in SUBSET LabelPool} :
        \E i \in 1..Len(labels) : labels[i].name = SERIES_NAME_LABEL}

\* TimeSeriesInfo::new on a label list and on a permutation of it
SeriesInfo ==
    /\ \E labels \in LabelLists : \E other \in Perms(Range(labels)) :
          call' = [api |-> "series_info", labels |-> labels, other |-> other,
                   long_name |-> long_name(labels), id |-> series_id(labels),
                   other_long_name |-> long_name(other), other_id |-> series_id(other)]
    /\ UNCHANGED <<disk, segments, current_segment, log, committed, engine_vars>>

NextSeries == SeriesInfo

SpecSeries == InitDirect /\ [][NextSeries]_vars

\* the order of two labels by (name, value)
LabelLess(a, b) ==
    \/ BytesLess(a.name, b.name)
    \/ a.name = b.name /\ BytesLess(a.value, b.value)

\* "name_value"
name_value(label) == label.name \o <<95>> \o label.value

\* C32 as claimed: two label lists that are permutations of each other have
\* the same long name and the same id, and the long name is the name_value
\* of the labels taken ascending by (name, value), joined with "-"
C32_IdOfSortedLabels ==
    call.api = "series_info"
        => /\ call.long_name = call.other_long_name
           /\ call.id = call.other_id
           /\ call.long_name
                  = join([i \in 1..Len(call.labels) |->
                             name_value(SortSeq(call.labels, LabelLess)[i])], <<45>>)

\* C32 amended: two label lists that are permutations of each other have the
\* same long name and the same id, and the long name is the name_value
\* strings of the labels, each once, ascending as strings and joined with "-"
C32_IdOfSortedStrings ==
    call.api = "series_info"
        => /\ call.long_name = call.other_long_name
           /\ call.id = call.other_id
           /\ \E order \in Perms(1..Len(call.labels)) :
                 /\ \A i \in 1..(Len(order) - 1) :
                       BytesLessEq(name_value(call.labels[order[i]]),
                                   name_value(call.labels[order[i + 1]]))
                 /\ call.long_name
                        = join([i \in 1..Len(order) |-> name_value(call.labels[order[i]])],
                               <<45>>)

\* a list with the labels a and a1 and a permutation of it that differs
C32_Witness ==
    /\ call.api = "series_info"
    /\ call.labels # call.other
    /\ \E i, j \in 1..Len(call.labels) :
          /\ call.labels[i].name = <<97>>
          /\ call.labels[j].name = <<97, 49>>
    /\ call.id = xx_hash64(call.long_name)

----------------------------------------------------------------------------
(* Close without commit, empty segments                                    *)

\* C33: the worker that handles Shutdown(false) hands nothing to the
\* finalizer and leaves the current segment alone; when it exits, the
\* current segment is dropped and no directory and no published segment
\* bears its id; and when close(false) is about to return the published list
\* is, in commit order, the segments the commits before the close handed to
\* the finalizer, which are also the only directories on disk
C33_CloseNoCommitDiscards ==
    /\ []((close_joined /\ ~hist.close[1].commit)
          => /\ fin = <<>>
             /\ finalizing = None
             /\ current_segment = None
             /\ Len(segments) = Len(committed)
             /\ \A k \in 1..Len(committed) :
                   /\ segments[k].id = committed[k].id
                   /\ DOMAIN segments[k].index
                          = {committed[k].docs[j].id : j \in 1..Len(committed[k].docs)}
             /\ DOMAIN disk = {committed[k].id : k \in 1..Len(committed)})
    /\ [][/\ (worker = "running" /\ worker' = "stopping" /\ ~Head(ops).commit)
             => UNCHANGED <<fin, committed, current_segment, log, disk, segments>>
          /\ (worker = "stopping" /\ worker' = "exited" /\ ~hist.close[1].commit
                 /\ current_segment # None)
             => /\ current_segment' = None
                /\ current_segment[1].id \notin DOMAIN disk'
                /\ current_segment[1].id \notin ids_of(segments')]_vars

\* close(false) is about to return: one segment is published and a document
\* inserted after its commit is in no segment on disk
C33_Witness ==
    /\ close_joined
    /\ ~hist.close[1].commit
    /\ Len(segments) = 1
    /\ Len(submitted["w1"]) = 2
    /\ ~OnDisk(submitted["w1"][2])
    /\ hist.handled = 4

\* the worker takes a Commit or a Shutdown(true) from the channel
flushing_step ==
    /\ worker = "running"
    /\ ops # <<>>
    /\ hist'.handled # hist.handled
    /\ \/ Head(ops).op = "Commit"
       \/ Head(ops).op = "Shutdown" /\ Head(ops).commit

\* C34: a Commit or Shutdown(true) that finds no current segment or one
\* without documents sends nothing to the finalizer, and no directory and no
\* published segment is made; every segment that waits for the finalizer, is
\* in its hands, is published or is on disk holds at least one document
C34_EmptySegmentNotFinalized ==
    /\ [](/\ \A i \in 1..Len(fin) : num_docs(fin[i].segment) > 0
          /\ finalizing # None => DOMAIN finalizing[1].segment.index # {}
          /\ \A i \in 1..Len(segments) : DOMAIN segments[i].index # {}
          /\ \A id \in DOMAIN disk : DOMAIN opened_segment(id).index # {})
    /\ [][(flushing_step /\ (current_segment = None \/ num_docs(current_segment[1]) = 0))
             => UNCHANGED <<fin, finalizer, finalizing, committed, disk, segments>>]_vars

\* two commits were handled, the second on the empty segment the first left:
\* one segment is published and one directory is on disk
C34_Witness ==
    /\ index_state = "open"
    /\ hist.handled = 3
    /\ ops = <<>>
    /\ fin = <<>>
    /\ finalizer = "recv"
    /\ current_segment # None
    /\ num_docs(current_segment[1]) = 0
    /\ Len(segments) = 1
    /\ Cardinality(DOMAIN disk) = 1

\* C35: with a worker and a finalizer that do not fail, no commit(true) finds
\* the sender of its reply dropped and no caller of commit is aborted: a
\* commit(true) on an absent or empty current segment returns Ok
C35_EmptyCommitReturnsOk ==
    \A w \in Writers : reply[w] # "dropped" /\ writer[w] # "panicked"

----------------------------------------------------------------------------
(* Posting lists and the doc store of a segment                            *)

\* the ids in the posting lists of a published segment, read from its files
posting_ids(segment) ==
    LET postings == Segment_postings(segment)
    IN UNION {Range(Postings_postings(postings, postings.term_dictionary[i][2])) :
                 i \in 1..Len(postings.term_dictionary)}

\* C37: each id in a posting list of a published segment has a document in
\* the doc store of that segment, and fetch_doc on the reader that answered
\* a query returns a document for each id of the answer
C37_PostingIdsHaveDocuments ==
    /\ \A k \in 1..Len(segments) :
          \A id \in posting_ids(segments[k]) :
              SegmentReader_fetch_doc(segments[k], id) # None
    /\ call.api = "query" =>
          \A i \in 1..Len(call.result) :
              IndexReader_fetch_doc(Index_reader, call.result[i]).err = ""

\* a query over two segments answered with the ids of both
C37_Witness ==
    /\ call.api = "query"
    /\ Len(segments) = 2
    /\ Len(call.result) >= 2
    /\ \E i \in 1..Len(call.result) :
          /\ call.result[i] \in posting_ids(segments[1])
          /\ call.result[i] \notin posting_ids(segments[2])

----------------------------------------------------------------------------
(* The ingestion task when input stops                                     *)

\* the select! branch of receiver.recv() when every sender is dropped: the
\* loop breaks and the task returns; the buffer it owned is dropped with it,
\* and what it held is never submitted
ChannelClosed ==
    /\ task = "select"
    /\ task' = "stopped"
    /\ ingest' = [ingest EXCEPT !.last = "closed"]
    /\ UNCHANGED <<disk, segments, current_segment, log, committed, call, index_vars,
                   memory_budget, sample_budget, memory_buffer, memory_usage, sample_count,
                   series, backend>>

NextIngest ==
    \/ NextStorage
    \/ ChannelClosed

\* the ingestion buffer with threads that keep being scheduled and a timer
\* that keeps ticking: a tick that finds a commit due is handled, a handler
\* under way goes on, and the worker and the finalizer take what their
\* channels hold
SpecIngest ==
    /\ InitStorage
    /\ [][NextIngest]_vars
    /\ WF_vars(TickSwap \/ TickInsert \/ TickCommit \/ TickDone)
    /\ WF_vars(WorkerInsert \/ WorkerCommit)
    /\ WF_vars(FinalizerIntoSegment \/ FinalizerPush \/ FinalizerReply)

\* C38: the samples held in the buffer are eventually taken out of it in a
\* batch that is submitted to the backend, also when input stops below both
\* budgets or the channel is closed
C38_BufferedEventuallySubmitted ==
    (DOMAIN memory_buffer # {}) ~> (DOMAIN memory_buffer = {})

----------------------------------------------------------------------------
(* The sample counter of the ingestion buffer                              *)

RECURSIVE buffered_samples(_)
\* the samples held in a buffer, summed over its series
buffered_samples(buffer) ==
    IF DOMAIN buffer = {} THEN 0
    ELSE LET id == CHOOSE i \in DOMAIN buffer : TRUE
         IN Len(buffer[id].samples)
                + buffered_samples([j \in DOMAIN buffer \ {id} |-> buffer[j]])

\* C39: whenever the ingestion loop is at its select!, between two handlers,
\* sample_count is the number of samples held in memory_buffer
C39_SampleCountIsBuffered ==
    task = "select" => sample_count = buffered_samples(memory_buffer)

\* two series are buffered, one of them with samples of two receptions
C39_Witness ==
    /\ task = "select"
    /\ Cardinality(DOMAIN memory_buffer) = 2
    /\ \E id \in DOMAIN memory_buffer : Len(memory_buffer[id].samples) >= 2
    /\ sample_count >= 3

----------------------------------------------------------------------------
(* Boolean queries over a snapshot of several segments                     *)

\* the ids IndexReader::query returns for a query on the published segments
query_ids(query) ==
    UNION {Range(IndexReader_query(parts)) : parts \in search_parts(Index_reader, query)}

\* the ids that one segment of the snapshot matches with both queries
ids_of_one_segment(left, right) ==
    {id \in query_ids(left) \cap query_ids(right) :
        \E k \in 1..Len(segments) :
            /\ \E found \in SegmentReader_search(segments[k], left) : id \in Range(found)
            /\ \E found \in SegmentReader_search(segments[k], right) : id \in Range(found)}

\* C40 as claimed: query(And(a, b)) is the intersection of query(a) and
\* query(b), and query(Or(a, b)) is their union
C40_BoolOverSnapshot ==
    (call.api = "query" /\ call.query.kind \in {"And", "Or"})
        => Range(call.result) =
               IF call.query.kind = "And"
               THEN query_ids(call.query.left) \cap query_ids(call.query.right)
               ELSE query_ids(call.query.left) \cup query_ids(call.query.right)

\* C40, amended: query(Or(a, b)) is the union of query(a) and query(b);
\* query(And(a, b)) holds only ids of their intersection that one segment
\* matches with both a and b
C40_BoolPerSegment ==
    (call.api = "query" /\ call.query.kind \in {"And", "Or"})
        => IF call.query.kind = "And"
           THEN Range(call.result) \subseteq ids_of_one_segment(call.query.left, call.query.right)
           ELSE Range(call.result) =
                    query_ids(call.query.left) \cup query_ids(call.query.right)

\* an id matched by a in one segment and by b in the other is in query(a) and
\* in query(b) and not in query(And(a, b))
C40_Witness ==
    /\ call.api = "query"
    /\ call.query.kind = "And"
    /\ Len(segments) = 2
    /\ call.result = <<>>
    /\ query_ids(call.query.left) \cap query_ids(call.query.right) # {}

====
